---- MODULE Spec2Model ----
(***************************************************************************)
(* A model of tilecraft's resilient execution engine:                      *)
(*   - CacheManager (utils/cache.py) over a small file system with inodes, *)
(*     a directory, writers running put step by step and a reader;         *)
(*   - OSMDownloader (core/osm_downloader.py): the retry loop, the         *)
(*     endpoint pool and the backoff delay;                                *)
(*   - TileGenerator (core/tile_generator.py): the cache key and the       *)
(*     cache-first request path.                                           *)
(* Each part has its own specification; the variables of the other parts   *)
(* stay at their initial values.                                           *)
(***************************************************************************)
EXTENDS Integers, Sequences, FiniteSets, TLC

VARIABLES
    enabled,  \* CacheManager.enabled
    dir,      \* the cache directory: path -> inode (0: no such file)
    data,     \* inode -> bytes of the file
    wr,       \* writer -> the frame of its put call
    rd,       \* what the reader's last get returned and saw
    kq,       \* two tile-key computations: the requests and their keys
    calc,     \* one call of _calculate_retry_delay: its inputs and result
    dl,       \* an OSMDownloader: its endpoint index and its download
    rq,       \* tile requests served through the cache, one after the other
    tg,       \* a TileGenerator: its statistics and its tile-generation run
    vo,       \* one call of _validate_output
    cdir,     \* the cache directory exists
    cl,       \* one call of CacheManager.clear
    gs,       \* one call of CacheManager.get_size
    pl        \* one call of TilecraftPipeline.run

cacheVars == <<enabled, dir, data, wr, rd>>

vars == <<enabled, dir, data, wr, rd, kq, calc, dl, rq, tg, vo, cdir, cl, gs, pl>>

\* What the actions of each part leave alone.
notCache == <<kq, calc, dl, rq, tg, vo, cdir, cl, gs, pl>>

notFs == <<kq, calc, dl, rq, tg, vo, cl, gs, pl>>

notParts == <<kq, calc, dl, rq, tg, vo, pl>>

notKey == <<enabled, dir, data, wr, rd, calc, dl, rq, tg, vo, cdir, cl, gs, pl>>

notCalc == <<enabled, dir, data, wr, rd, kq, dl, rq, tg, vo, cdir, cl, gs, pl>>

notDl == <<enabled, dir, data, wr, rd, kq, calc, rq, tg, vo, cdir, cl, gs, pl>>

notRq == <<enabled, dir, data, wr, rd, kq, calc, dl, tg, vo, cdir, cl, gs, pl>>

notTg == <<enabled, dir, data, wr, rd, kq, calc, dl, rq, vo, cdir, cl, gs, pl>>

notVo == <<enabled, dir, data, wr, rd, kq, calc, dl, rq, tg, cdir, cl, gs, pl>>

notPl == <<enabled, dir, data, wr, rd, kq, calc, dl, rq, tg, vo, cdir, cl, gs>>

(***************************************************************************)
(* The file system under the cache directory                               *)
(***************************************************************************)
Keys == {"k1", "k2"}
Writers == {"w1", "w2"}

\* Source files outside the cache: two byte-identical files, a different
\* one, a path with no file and a file without read permission.
Sources == {"srcA", "srcA2", "srcB", "srcMissing", "srcUnreadable"}

SrcPath(s) == <<"src", s>>

SrcExists(p) == p[1] = "src" /\ p[2] # "srcMissing"

SrcReadable(p) == p[1] = "src" /\ p[2] # "srcUnreadable"

SrcData(p) ==
    IF p[2] \in {"srcA", "srcA2"} THEN <<1, 2>>
    ELSE IF p[2] = "srcB" THEN <<3>>
    ELSE IF p[2] = "srcUnreadable" THEN <<4>>
    ELSE <<>>

\* Path.stat().st_size
SrcSize(p) == Len(SrcData(p))

\* CacheManager.get_path: cache_dir / (key + suffix)
get_path(k) == <<"cache", k>>

\* put's sibling temporary file: cache_path.with_suffix(suffix + ".tmp")
temp_cache_path(k) == <<"tmp", k>>

Names == {get_path(k) : k \in Keys} \cup {temp_cache_path(k) : k \in Keys}

NumInodes == 2 * Cardinality(Keys) + Cardinality(Writers)

Inodes == 1..NumInodes

NoPath == <<"none", "none">>

NoFile == [ex |-> FALSE, bytes |-> <<>>]

\* What a path of the cache directory holds, in directory d with contents dt.
FileIn(d, dt, p) ==
    IF d[p] = 0 THEN NoFile ELSE [ex |-> TRUE, bytes |-> dt[d[p]]]

FileAt(p) == FileIn(dir, data, p)

\* The inodes a directory or an open descriptor still refers to.
Referenced(d, w) == {d[p] : p \in Names} \cup {w[x].fd : x \in Writers}

\* A fresh inode for a file that open() creates.
Alloc == CHOOSE i \in Inodes : i \notin Referenced(dir, wr)

\* An inode nobody refers to is gone: its contents are dropped.
Reclaim(d, w, dt) ==
    [i \in Inodes |-> IF i \in Referenced(d, w) THEN dt[i] ELSE <<>>]

Zeros(n) == [j \in 1..n |-> 0]

\* write() of byte b at file offset o: a write past the end leaves a hole.
WriteAt(bytes, o, b) ==
    IF o < Len(bytes) THEN [bytes EXCEPT ![o + 1] = b]
    ELSE bytes \o Zeros(o - Len(bytes)) \o <<b>>

(***************************************************************************)
(* CacheManager.get                                                        *)
(***************************************************************************)
\* The path get returns, NoPath for None.
Get(en, d, k) ==
    IF ~en THEN NoPath
    ELSE IF d[get_path(k)] # 0 THEN get_path(k)
    ELSE NoPath

(***************************************************************************)
(* CacheManager.put, one step per file-system call                         *)
(***************************************************************************)
MaxFree == 4

IdleFrame ==
    [pc |-> "idle", key |-> "k1", src |-> NoPath, fd |-> 0, off |-> 0,
     exc |-> "none", cause |-> "none", ret |-> NoPath, raised |-> FALSE,
     old |-> NoFile, seen |-> {}]

\* A put call that has started and has not yet returned to its caller.
Executing(f) == f.pc # "idle"

\* The exception classes the two handlers of put catch (lines 162 and 166):
\* the three OSError classes, then every other Exception.
CaughtOSErrorOnly(e) == e \in {"OSError", "PermissionError", "FileNotFoundError"}

Caught(e) ==
    \/ e \in {"OSError", "PermissionError", "FileNotFoundError"}
    \/ e \in {"Exception"}

\* put leaving through its handlers: the source path comes back when the
\* exception is caught, otherwise the exception reaches the caller.
Leave(f) ==
    IF Caught(f.exc)
    THEN [f EXCEPT !.pc = "done", !.ret = f.src, !.fd = 0, !.off = 0]
    ELSE [f EXCEPT !.pc = "done", !.raised = TRUE, !.fd = 0, !.off = 0]

\* Where shutil.copy2 writes: the temporary sibling, never the cache path.
CopyTargetDirect(k) == get_path(k)

CopyTarget(k) == temp_cache_path(k)

\* The first check of put that fails, "none" when all pass.
PreCheck(p, free, writable) ==
    IF ~SrcExists(p) THEN [exc |-> "FileNotFoundError", cause |-> "source_missing"]
    ELSE IF ~SrcReadable(p) THEN [exc |-> "PermissionError", cause |-> "source_unreadable"]
    ELSE IF free < SrcSize(p) * 2 THEN [exc |-> "OSError", cause |-> "no_space"]
    ELSE IF ~writable THEN [exc |-> "PermissionError", cause |-> "dir_not_writable"]
    ELSE [exc |-> "none", cause |-> "none"]

\* put(key, source_path) up to the start of the copy: lines 114-148.
PutStart(w, k, p, free, writable) ==
    /\ wr[w].pc = "idle"
    /\ LET f == [IdleFrame EXCEPT !.key = k, !.src = p, !.old = FileAt(get_path(k))]
           chk == PreCheck(p, free, writable)
       IN  wr' = [wr EXCEPT ![w] =
                IF ~enabled THEN [f EXCEPT !.pc = "done", !.ret = p]
                ELSE IF p = get_path(k) THEN [f EXCEPT !.pc = "done", !.ret = get_path(k)]
                ELSE IF chk.exc # "none"
                     THEN Leave([f EXCEPT !.exc = chk.exc, !.cause = chk.cause])
                ELSE [f EXCEPT !.pc = "copy_open"]]
    /\ cdir' = (cdir \/ (enabled /\ p # get_path(k)))
    /\ UNCHANGED <<enabled, dir, data, rd>>
    /\ UNCHANGED notFs

\* shutil.copy2 opening its target for writing: creates or truncates it;
\* fails when the cache directory is not there.
PutOpen(w) ==
    /\ wr[w].pc = "copy_open"
    /\ LET t == CopyTarget(wr[w].key)
           i == IF dir[t] = 0 THEN Alloc ELSE dir[t]
           f == [wr[w] EXCEPT !.fd = i, !.off = 0,
                              !.pc = IF SrcSize(wr[w].src) = 0 THEN "rename" ELSE "copy_write"]
           g == [wr[w] EXCEPT !.pc = "cleanup", !.exc = "FileNotFoundError",
                              !.cause = "copy_failed"]
       IN  IF cdir
           THEN /\ dir' = [dir EXCEPT ![t] = i]
                /\ wr' = [wr EXCEPT ![w] = f]
                /\ data' = [data EXCEPT ![i] = <<>>]
           ELSE /\ wr' = [wr EXCEPT ![w] = g]
                /\ UNCHANGED <<dir, data>>
    /\ UNCHANGED <<enabled, rd>>
    /\ UNCHANGED notCache

\* shutil.copy2 writing the next chunk through its descriptor.
PutWrite(w) ==
    /\ wr[w].pc = "copy_write"
    /\ LET f == wr[w]
           b == SrcData(f.src)[f.off + 1]
           last == f.off + 1 = SrcSize(f.src)
           g == IF last THEN [f EXCEPT !.pc = "rename", !.fd = 0, !.off = 0]
                ELSE [f EXCEPT !.off = f.off + 1]
           nwr == [wr EXCEPT ![w] = g]
       IN  /\ wr' = nwr
           /\ data' = Reclaim(dir, nwr, [data EXCEPT ![f.fd] = WriteAt(data[f.fd], f.off, b)])
    /\ UNCHANGED <<enabled, dir, rd>>
    /\ UNCHANGED notCache

\* shutil.copy2 failing (open, read, write or copystat): line 153.
PutCopyFail(w, e) ==
    /\ wr[w].pc \in {"copy_open", "copy_write"}
    /\ LET nwr == [wr EXCEPT ![w] = [wr[w] EXCEPT !.pc = "cleanup", !.exc = e,
                                                  !.cause = "copy_failed",
                                                  !.fd = 0, !.off = 0]]
       IN  /\ wr' = nwr
           /\ data' = Reclaim(dir, nwr, data)
    /\ UNCHANGED <<enabled, dir, rd>>
    /\ UNCHANGED notCache

\* rename(2): the target name now refers to the source's inode.
RenamedAway(d, t, c) == [d EXCEPT ![t] = 0]

Renamed(d, t, c) == IF t = c THEN d ELSE [d EXCEPT ![c] = d[t], ![t] = 0]

\* temp_cache_path.rename(cache_path), line 151: fails when the operating
\* system refuses it, or when the temporary file is no longer there.
PutRename(w, refused) ==
    /\ wr[w].pc = "rename"
    /\ LET f == wr[w]
           t == CopyTarget(f.key)
           c == get_path(f.key)
       IN  IF refused \/ dir[t] = 0
           THEN /\ wr' = [wr EXCEPT ![w] =
                      [f EXCEPT !.pc = "cleanup", !.cause = "rename_failed",
                                !.exc = IF dir[t] = 0 THEN "FileNotFoundError" ELSE "OSError"]]
                /\ UNCHANGED <<dir, data>>
           ELSE LET nd == Renamed(dir, t, c)
                    nwr == [wr EXCEPT ![w] = [f EXCEPT !.pc = "done", !.ret = c]]
                IN  /\ dir' = nd
                    /\ wr' = nwr
                    /\ data' = Reclaim(nd, nwr, data)
    /\ UNCHANGED <<enabled, rd>>
    /\ UNCHANGED notCache

\* The inner handler, lines 153-160: unlink the temporary file if it is
\* there, re-raise; the outer handlers then return the source path.
PutCleanup(w) ==
    /\ wr[w].pc = "cleanup"
    /\ LET t == CopyTarget(wr[w].key)
           nd == [dir EXCEPT ![t] = 0]
           nwr == [wr EXCEPT ![w] = Leave(wr[w])]
       IN  /\ dir' = nd
           /\ wr' = nwr
           /\ data' = Reclaim(nd, nwr, data)
    /\ UNCHANGED <<enabled, rd>>
    /\ UNCHANGED notCache

\* The caller takes put's result; the writer is free for its next call.
PutReturn(w) ==
    /\ wr[w].pc = "done"
    /\ wr' = [wr EXCEPT ![w] = IdleFrame]
    /\ UNCHANGED <<enabled, dir, data, rd>>
    /\ UNCHANGED notCache

\* The reader's get(k): the path it got and the file it saw there. Every
\* put for k that is executing at that moment notes what the reader saw.
ReaderGet(k) ==
    LET path == Get(enabled, dir, k)
        file == IF path = NoPath THEN NoFile ELSE FileAt(path)
    IN  /\ rd' = [key |-> k, path |-> path, file |-> file]
        /\ wr' = [w \in Writers |->
                    IF Executing(wr[w]) /\ wr[w].key = k
                    THEN [wr[w] EXCEPT !.seen = @ \cup {file}]
                    ELSE wr[w]]
        /\ UNCHANGED <<enabled, dir, data>>
        /\ UNCHANGED notCache

NoRead == [key |-> "k1", path |-> NoPath, file |-> NoFile]

PutInputs == {SrcPath(s) : s \in Sources} \cup {get_path(k) : k \in Keys}

CopyExceptions == {"OSError", "Exception"}

EmptyDir == [p \in Names |-> 0]

EmptyData == [i \in Inodes |-> <<>>]

IdleWriters == [w \in Writers |-> IdleFrame]

NoKeyRequest == [a |-> 0, b |-> 0, res |-> [varied |-> "unset", ka |-> <<>>, kb |-> <<>>]]

NoCall == [attempt |-> 0, j |-> 0, out |-> 0, made |-> FALSE]

NoCalc == [attempt |-> 0, base |-> 0, j |-> 0, out |-> 0, done |-> FALSE, prev |-> NoCall]

NoAttempt == [ep |-> 0, kind |-> "none", delay |-> 0, wrote |-> "absent"]

OVERPASS_ENDPOINTS == <<"overpass-api.de", "lz4.overpass-api.de", "z.overpass-api.de">>

\* self.min_request_interval, in seconds.
MIN_REQUEST_INTERVAL == 1

\* The clock of the rate limiter advances in ticks.
TicksPerSecond == 2

MinIntervalTicks == MIN_REQUEST_INTERVAL * TicksPerSecond

\* OSMDownloader.__init__, lines 64-68, with no download started. elapsed:
\* time.time() - self.last_request_time, in ticks, kept up to the minimum
\* interval (last_request_time starts at 0.0, long ago). gap and slept: the
\* time between the last two recorded request times, kept up to the same
\* cap, and the sleep of the last _respect_rate_limit.
NewDownloader ==
    [current_endpoint_index |-> 0, pc |-> "idle", attempt |-> 0,
     last_exception |-> "none", file |-> "absent", raised |-> "none", made |-> 0,
     att |-> NoAttempt, prev |-> NoAttempt,
     pool |-> OVERPASS_ENDPOINTS,
     elapsed |-> MinIntervalTicks, gap |-> MinIntervalTicks, slept |-> 0,
     requests |-> 0]

NoPrior == [found |-> FALSE, osm |-> NoPath, tiles |-> NoPath, bytes |-> <<>>]

\* A pipeline before run is called. calls holds, per stage invoked, its
\* argument and what it returned; thrown what a stage raised, raised what
\* left run.
NoPipeline ==
    [pc |-> "idle", calls |-> <<>>, osm_data |-> <<>>, features |-> <<>>,
     schema |-> <<>>, tiles |-> <<>>, style |-> <<>>, result |-> <<>>,
     thrown |-> "none", raised |-> "none"]

\* The feature types of the configuration (config.features.types).
ConfiguredTypes == {"rivers"}

NoRequests ==
    [pc |-> "idle", bbox |-> "b1", types |-> ConfiguredTypes, osm |-> NoPath,
     tiles |-> NoPath, fetches |-> 0, runs |-> 0, prior |-> NoPrior,
     error |-> "none", end |-> "none", looked |-> FALSE, had |-> FALSE,
     entries |-> {}, outside |-> {}, hist |-> {}, mtime |-> 1,
     nreq |-> 0, nfetch |-> 0, nrun |-> 0]

NoRun ==
    [pc |-> "idle", attempt |-> 0, made |-> 0, spawned |-> 0,
     retries |-> 0, retries0 |-> 0, rate |-> 0, rates |-> <<>>, simps |-> <<>>,
     kinds |-> <<>>,
     child |-> "none", waited |-> FALSE, exit |-> "none", temp |-> "absent",
     printed |-> 0, output_lines |-> <<>>,
     final |-> 0, before |-> 0, failed |-> FALSE,
     monitor |-> "none", mem |-> "normal", crit |-> FALSE,
     clock |-> 0, serial |-> 0, runs |-> 0, xdev |-> FALSE,
     result |-> 0, error |-> "none"]

NoClear ==
    [pc |-> "idle", todo |-> {}, removed |-> {}, raised |-> FALSE, strict |-> TRUE]

NoSize ==
    [pc |-> "idle", todo |-> {}, cur |-> <<"none", "none">>, total |-> 0,
     counted |-> {}, skipped |-> {}, listing |-> {}, listed |-> FALSE,
           raised |-> FALSE]

NoValidation ==
    [pc |-> "idle", file |-> "none", looks |-> <<>>, inspections |-> 0,
     opened |-> 0, slept |-> 0, outcome |-> "none",
     archive |-> [metadata |-> FALSE, format |-> FALSE, tiles |-> "absent",
                  map |-> "absent", images |-> "absent"]]

InitCache ==
    /\ enabled \in BOOLEAN
    /\ cdir = enabled
    /\ dir = EmptyDir
    /\ data = EmptyData
    /\ wr = IdleWriters
    /\ rd = NoRead
    /\ kq = NoKeyRequest
    /\ calc = NoCalc
    /\ dl = NewDownloader
    /\ rq = NoRequests
    /\ tg = NoRun
    /\ vo = NoValidation
    /\ cl = NoClear
    /\ gs = NoSize
    /\ pl = NoPipeline

PutStep(w) ==
    \/ \E k \in Keys, p \in PutInputs, free \in 0..MaxFree, writable \in BOOLEAN :
          PutStart(w, k, p, free, writable)
    \/ PutOpen(w)
    \/ PutWrite(w)
    \/ \E e \in CopyExceptions : PutCopyFail(w, e)
    \/ \E refused \in BOOLEAN : PutRename(w, refused)
    \/ PutCleanup(w)
    \/ PutReturn(w)

(***************************************************************************)
(* TileGenerator._generate_cache_key                                       *)
(***************************************************************************)
FeatureTypes == {"rivers", "roads"}

\* sorted() on feature type names.
FtOrder == <<"rivers", "roads">>

Locations == {"out1", "out2"}

\* The GeoJSON file of a feature type under an output location.
FeaturePath(loc, ft) == <<loc, ft>>

\* A file that is no input of any tile request.
UnrelatedPath == <<"out1", "schema">>

FsPaths == {FeaturePath(l, t) : l \in Locations, t \in FeatureTypes} \cup {UnrelatedPath}

\* sorted(feature_files.items()) / sorted(feature_files.keys())
SortedKeys(files) == SelectSeq(FtOrder, LAMBDA t : t \in DOMAIN files)

\* Lines 327-332: one "type:path:size:mtime" item per existing input file.
FileItems(files, fs) ==
    LET ks == SelectSeq(SortedKeys(files), LAMBDA t : fs[files[t]].exists)
    IN  [i \in 1..Len(ks) |->
            <<ks[i], files[ks[i]], fs[files[ks[i]]].size, fs[files[ks[i]]].mtime>>]

\* Lines 335-342: the configuration items of the key.
ConfigItems(files, cfg) ==
    << <<"bbox", cfg.bbox>>, <<"min_zoom", cfg.min_zoom>>, <<"max_zoom", cfg.max_zoom>>,
       <<"buffer", cfg.buffer>>, <<"quality", cfg.quality_profile>>,
       <<"layers", SortedKeys(files)>> >>

\* The key is the first 16 hex digits of the SHA-256 of the joined items.
\* The digest is taken to be collision-free on the requests of the model:
\* two keys are equal exactly when the hashed item lists are.
GenerateCacheKey(files, fs, cfg) == FileItems(files, fs) \o ConfigItems(files, cfg)

CategorySets == (SUBSET FeatureTypes) \ {{}}

\* The tile configuration fields that shape the archive; simplification and
\* drop rate in tenths.
Configs ==
    [bbox : {"b1", "b2"}, min_zoom : {0, 1}, max_zoom : {13, 14}, buffer : {64, 128},
     quality_profile : {"balanced", "fast"}, simplification : {10, 20},
     drop_rate : {25, 40}]

BaseConfigs ==
    {c \in Configs : c.buffer = 64 /\ c.drop_rate = 25 /\ c.max_zoom = 14}

FeatureFiles(loc, cats) == [t \in cats |-> FeaturePath(loc, t)]

BaseFs == [p \in FsPaths |-> [exists |-> TRUE, size |-> 1, mtime |-> 1]]

KeyRequest(loc, cats, fs, cfg) ==
    [loc |-> loc, cats |-> cats, fs |-> fs, cfg |-> cfg]

KeyOf(r) == GenerateCacheKey(FeatureFiles(r.loc, r.cats), r.fs, r.cfg)

NoKeys == [varied |-> "unset", ka |-> <<>>, kb |-> <<>>]

InitKey ==
    /\ \E cats \in CategorySets, cfg \in BaseConfigs, m \in {1, 2} :
        kq = [a |-> KeyRequest("out1", cats,
                      [BaseFs EXCEPT ![FeaturePath("out1", "rivers")].mtime = m], cfg),
              b |-> KeyRequest("out1", cats,
                      [BaseFs EXCEPT ![FeaturePath("out1", "rivers")].mtime = m], cfg),
              res |-> NoKeys]
    /\ enabled = TRUE
    /\ cdir = enabled
    /\ dir = EmptyDir
    /\ data = EmptyData
    /\ wr = IdleWriters
    /\ rd = NoRead
    /\ calc = NoCalc
    /\ dl = NewDownloader
    /\ rq = NoRequests
    /\ tg = NoRun
    /\ vo = NoValidation
    /\ cl = NoClear
    /\ gs = NoSize
    /\ pl = NoPipeline

\* The second computation is made on request r, which differs from the
\* first in the aspect named by what.
Compute(what, r) ==
    /\ kq.res = NoKeys
    /\ kq' = [kq EXCEPT !.b = r,
                        !.res = [varied |-> what, ka |-> KeyOf(kq.a), kb |-> KeyOf(r)]]
    /\ UNCHANGED notKey

VaryNothing == Compute("none", kq.a)

\* The same logical request under another output location: the same feature
\* types, sizes, modification times and parameters.
VaryLocation ==
    \E l \in Locations \ {kq.a.loc} :
        Compute("location", [kq.a EXCEPT !.loc = l,
            !.fs = [p \in FsPaths |->
                     IF p[1] = l /\ p # UnrelatedPath
                     THEN kq.a.fs[FeaturePath(kq.a.loc, p[2])] ELSE kq.a.fs[p]]])

VaryBBox ==
    \E v \in {"b1", "b2"} \ {kq.a.cfg.bbox} :
        Compute("bbox", [kq.a EXCEPT !.cfg.bbox = v])

VaryCategories ==
    \E v \in CategorySets \ {kq.a.cats} :
        Compute("categories", [kq.a EXCEPT !.cats = v])

VaryMinZoom ==
    \E v \in {0, 1} \ {kq.a.cfg.min_zoom} :
        Compute("min_zoom", [kq.a EXCEPT !.cfg.min_zoom = v])

VaryMaxZoom ==
    \E v \in {13, 14} \ {kq.a.cfg.max_zoom} :
        Compute("max_zoom", [kq.a EXCEPT !.cfg.max_zoom = v])

VaryBuffer ==
    \E v \in {64, 128} \ {kq.a.cfg.buffer} :
        Compute("buffer", [kq.a EXCEPT !.cfg.buffer = v])

VaryQuality ==
    \E v \in {"balanced", "fast"} \ {kq.a.cfg.quality_profile} :
        Compute("quality_profile", [kq.a EXCEPT !.cfg.quality_profile = v])

VarySimplification ==
    \E v \in {10, 20} \ {kq.a.cfg.simplification} :
        Compute("simplification", [kq.a EXCEPT !.cfg.simplification = v])

VaryDropRate ==
    \E v \in {25, 40} \ {kq.a.cfg.drop_rate} :
        Compute("drop_rate", [kq.a EXCEPT !.cfg.drop_rate = v])

\* Only the modification time of a file that is no input of the request.
VaryUnrelatedMtime ==
    \E p \in FsPaths \ {FeaturePath(kq.a.loc, t) : t \in kq.a.cats} :
        Compute("unrelated_mtime", [kq.a EXCEPT !.fs[p].mtime = kq.a.fs[p].mtime + 1])

\* The modification time of an input file of the request.
VaryInputMtime ==
    \E t \in kq.a.cats :
        Compute("input_mtime",
                [kq.a EXCEPT !.fs[FeaturePath(kq.a.loc, t)].mtime = @ + 1])

NextKey ==
    \/ VaryNothing
    \/ VaryLocation
    \/ VaryBBox
    \/ VaryCategories
    \/ VaryMinZoom
    \/ VaryMaxZoom
    \/ VaryBuffer
    \/ VaryQuality
    \/ VarySimplification
    \/ VaryDropRate
    \/ VaryUnrelatedMtime
    \/ VaryInputMtime

SpecKey == InitKey /\ [][NextKey]_vars

\* C5: the same logical request (the same feature types, input sizes and
\* modification times, and generation parameters) yields the same key,
\* whichever instance or output location computes it.
C5_KeyDeterministic ==
    kq.res.varied \in {"none", "location"} => kq.res.ka = kq.res.kb

\* C6: changing exactly one of bounding box, category set or a quality
\* parameter changes the key; changing only the modification time of a file
\* that is not an input of the key leaves it unchanged.
C6_KeySensitive ==
    /\ kq.res.varied \in {"bbox", "categories", "min_zoom", "max_zoom", "buffer",
                           "quality_profile", "simplification", "drop_rate"}
          => kq.res.ka # kq.res.kb
    /\ kq.res.varied = "unrelated_mtime" => kq.res.ka = kq.res.kb

\* One writer and one reader.
NextCache1 ==
    \/ PutStep("w1")
    \/ \E k \in Keys : ReaderGet(k)

SpecCache1 == InitCache /\ [][NextCache1]_vars

(***************************************************************************)
(* Claims about the cache with one writer                                  *)
(***************************************************************************)
\* The contents of the complete files a put can copy.
CompleteContents == {SrcData(SrcPath(s)) : s \in {"srcA", "srcA2", "srcB"}}

\* A put that copied a source file into the cache and returned its path.
Succeeded(f) == f.pc = "done" /\ f.ret = get_path(f.key) /\ f.src # get_path(f.key)

\* C1 as stated: every get(K) that hit while a put(K, src) was executing saw
\* the complete final contents, the bytes of src, at the cache path.
C1_ReaderSeesFinalContents ==
    \A w \in Writers :
        Succeeded(wr[w]) =>
            \A o \in wr[w].seen : o.ex => o.bytes = SrcData(wr[w].src)

\* C1 amended: a get(K) made while a put(K, src) is executing gets a miss or
\* a path whose file is never a partial copy: it holds the complete bytes of
\* src, or it is the complete file the cache path already held when this put
\* began.
C1_ReaderNeverSeesPartial ==
    \A w \in Writers :
        \A o \in wr[w].seen :
            \/ o = NoFile
            \/ o = [ex |-> TRUE, bytes |-> SrcData(wr[w].src)] /\ wr[w].src[1] = "src"
            \/ o = wr[w].old /\ o.bytes \in CompleteContents

\* A put on a fresh key during which the reader first missed and then, after
\* the rename and before the return, hit the complete file.
C1_Witness ==
    /\ Succeeded(wr["w1"])
    /\ ~wr["w1"].old.ex
    /\ wr["w1"].seen = {NoFile, [ex |-> TRUE, bytes |-> <<1, 2>>]}

\* C2: a put that could not complete the cache write, whatever the cause,
\* raises nothing, returns its source path, and leaves the file at the
\* key's cache path exactly as it was when the put began.
C2_FailedPutPassesThrough ==
    \A w \in Writers :
        (wr[w].pc = "done" /\ wr[w].cause # "none") =>
            /\ ~wr[w].raised
            /\ wr[w].ret = wr[w].src
            /\ FileAt(get_path(wr[w].key)) = wr[w].old

\* A put whose rename was refused after the copy, over an existing entry.
C2_Witness ==
    /\ wr["w1"].pc = "done"
    /\ wr["w1"].cause = "rename_failed"
    /\ wr["w1"].old.ex
    /\ wr["w1"].old.bytes # SrcData(wr["w1"].src)

\* C3: after a successful put(K, A), get(K) returns K's cache path and the
\* file there holds A's bytes; and a put(K, A') onto an entry that already
\* holds the same bytes leaves get(K) returning the same path with the same
\* contents at every moment of that put and after it.
C3_RoundTrip ==
    \A w \in Writers :
        LET f == wr[w]
            c == get_path(f.key)
        IN  /\ (f.pc = "done" /\ f.ret = c /\ f.src # c) =>
                  /\ Get(enabled, dir, f.key) = c
                  /\ FileAt(c) = [ex |-> TRUE, bytes |-> SrcData(f.src)]
            /\ (f.pc # "idle" /\ f.src # c /\ f.old.ex
                    /\ f.old.bytes = SrcData(f.src)) =>
                  /\ Get(enabled, dir, f.key) = c
                  /\ FileAt(c) = f.old

\* A second put of byte-identical contents that succeeded.
C3_Witness ==
    /\ wr["w1"].pc = "done"
    /\ wr["w1"].ret = get_path(wr["w1"].key)
    /\ wr["w1"].src = SrcPath("srcA2")
    /\ wr["w1"].old = [ex |-> TRUE, bytes |-> <<1, 2>>]

(***************************************************************************)
(* OSMDownloader._calculate_retry_delay                                    *)
(***************************************************************************)
MAX_RETRIES == 5

BASE_RETRY_DELAY == 2

MAX_RETRY_DELAY == 60

RATE_LIMIT_DELAY == 30

\* random.random() is drawn from the grid j / JitterSteps, j < JitterSteps.
JitterSteps == 4

\* Delays are kept exactly, in units of 1 / Scale seconds.
Scale == 8 * JitterSteps

MaxAttemptIdx == 8

\* The base delays of the call sites (lines 105 and 347) and a smaller one.
Bases == {1, BASE_RETRY_DELAY, 5}

Min(a, b) == IF a < b THEN a ELSE b

Max(a, b) == IF a > b THEN a ELSE b

\* Line 108: min(base_delay * 2 ** attempt, MAX_RETRY_DELAY), in seconds.
BackoffFlat(attempt, base) == Min(base, MAX_RETRY_DELAY)

Backoff(attempt, base) == Min(base * 2 ^ attempt, MAX_RETRY_DELAY)

\* Lines 111-112: delay + delay * 0.25 * (random() - 0.5), scaled:
\* delay * (1 + (2j - J) / 8J) = delay * (7J + 2j) / 8J.
Jittered(delay, j) == delay * (7 * JitterSteps + 2 * j)

\* Line 113: max(1.0, min(final_delay, MAX_RETRY_DELAY)), scaled.
ClampFloorOnly(x) == Max(1 * Scale, x)

Clamp(x) == Max(1 * Scale, Min(x, MAX_RETRY_DELAY * Scale))

calculate_retry_delay(attempt, base, j) == Clamp(Jittered(Backoff(attempt, base), j))

InitCalc ==
    /\ \E a \in 0..MaxAttemptIdx, b \in Bases, j \in 0..(JitterSteps - 1) :
          calc = [attempt |-> a, base |-> b, j |-> j, out |-> 0, done |-> FALSE,
                  prev |-> NoCall]
    /\ enabled = TRUE
    /\ cdir = enabled
    /\ dir = EmptyDir
    /\ data = EmptyData
    /\ wr = IdleWriters
    /\ rd = NoRead
    /\ kq = NoKeyRequest
    /\ dl = NewDownloader
    /\ rq = NoRequests
    /\ tg = NoRun
    /\ vo = NoValidation
    /\ cl = NoClear
    /\ gs = NoSize
    /\ pl = NoPipeline

Calculate ==
    /\ ~calc.done
    /\ calc' = [calc EXCEPT !.done = TRUE,
                            !.out = calculate_retry_delay(calc.attempt, calc.base, calc.j)]
    /\ UNCHANGED notCalc

\* A second call on the same downloader, for another attempt index and with
\* another jitter draw.
CalculateNext(a, j) ==
    /\ calc.done
    /\ ~calc.prev.made
    /\ calc' = [attempt |-> a, base |-> calc.base, j |-> j,
                out |-> calculate_retry_delay(a, calc.base, j), done |-> TRUE,
                prev |-> [attempt |-> calc.attempt, j |-> calc.j,
                          out |-> calc.out, made |-> TRUE]]
    /\ UNCHANGED notCalc

NextCalc ==
    \/ Calculate
    \/ \E a \in 0..MaxAttemptIdx, j \in 0..(JitterSteps - 1) : CalculateNext(a, j)

SpecCalc == InitCalc /\ [][NextCalc]_vars

\* C10: for every attempt index and every jitter draw the delay lies within
\* [1, MAX_RETRY_DELAY] seconds.
C10_DelayWithinBounds ==
    calc.done => (1 * Scale <= calc.out /\ calc.out <= MAX_RETRY_DELAY * Scale)

\* A capped backoff (2 * 2^5 > 60) with a positive jitter, cut back to the
\* maximum.
C10_Witness ==
    /\ calc.done
    /\ calc.base = BASE_RETRY_DELAY
    /\ calc.attempt = 5
    /\ Jittered(Backoff(calc.attempt, calc.base), calc.j) > MAX_RETRY_DELAY * Scale
    /\ calc.out = MAX_RETRY_DELAY * Scale

\* C11: the un-jittered delay min(base * 2^attempt, MAX_RETRY_DELAY) does
\* not decrease when the attempt index grows, and with the default base the
\* delay computed for attempt 1 is strictly greater than the delay computed
\* for attempt 0, whatever the two jitter draws.
C11_BackoffGrows ==
    calc.prev.made =>
        /\ calc.prev.attempt <= calc.attempt =>
              Backoff(calc.prev.attempt, calc.base) <= Backoff(calc.attempt, calc.base)
        /\ (calc.base = BASE_RETRY_DELAY /\ calc.prev.attempt = 0 /\ calc.attempt = 1) =>
              calc.out > calc.prev.out

\* Attempt 0 with the largest jitter draw, then attempt 1 with the smallest.
C11_Witness ==
    /\ calc.prev.made
    /\ calc.base = BASE_RETRY_DELAY
    /\ calc.prev.attempt = 0
    /\ calc.prev.j = JitterSteps - 1
    /\ calc.attempt = 1
    /\ calc.j = 0
    /\ calc.out > calc.prev.out

(***************************************************************************)
(* OSMDownloader._download_with_retry                                      *)
(***************************************************************************)
\* What one attempt of _download_with_progress can end in.
Outcomes == {"ok", "http429", "timeout", "http5xx", "http4xx", "network", "unexpected"}

\* _rotate_endpoint, line 81.
RotateEndpointUnwrapped(i) == i + 1

RotateEndpoint(i) == (i + 1) % Len(dl.pool)

\* _respect_rate_limit, lines 86-90: the sleep for an elapsed time.
SleepTimeNone(elapsed) == 0

SleepTime(elapsed) ==
    IF elapsed < MinIntervalTicks THEN MinIntervalTicks - elapsed ELSE 0

\* Whole ticks of a wait given in units of 1 / Scale seconds.
DelayTicks(delay) == (delay * TicksPerSecond) \div Scale

\* The elapsed time the limiter can tell apart: up to the interval.
Capped(t) == Min(t, MinIntervalTicks)

\* The exception _download_with_progress raises, lines 173-208.
ExceptionOf(kind) ==
    IF kind = "http429" THEN "RateLimitError"
    ELSE IF kind = "timeout" THEN "TimeoutError"
    ELSE IF kind \in {"http5xx", "http4xx", "network"} THEN "OverpassAPIError"
    ELSE IF kind = "unexpected" THEN "Exception"
    ELSE "none"

\* The temporary output file after an attempt: a status other than 200 is
\* raised before the file is opened; a failure while streaming leaves a
\* truncated file; a stream that ran to its end leaves the complete file.
FileAfter(file, kind, streaming) ==
    IF kind = "ok" THEN "complete"
    ELSE IF kind \in {"timeout", "network", "unexpected"} /\ streaming THEN "partial"
    ELSE file

\* The wait of the handlers, lines 304-349: none after the last attempt.
HandlerDelay(exc, attempt, j) ==
    IF ~(attempt < MAX_RETRIES - 1) THEN 0
    ELSE IF exc = "RateLimitError" THEN (RATE_LIMIT_DELAY + attempt * 15) * Scale
    ELSE IF exc \in {"TimeoutError", "OverpassAPIError"}
         THEN calculate_retry_delay(attempt, BASE_RETRY_DELAY, j)
    ELSE calculate_retry_delay(attempt, 5, j)

\* Whether the handlers rotate the endpoint, lines 315, 327 and 339-340.
HandlerRotates(exc, attempt) ==
    /\ attempt < MAX_RETRIES - 1
    /\ \/ exc \in {"RateLimitError", "TimeoutError"}
       \/ exc = "OverpassAPIError" /\ attempt >= 1

\* Lines 355-359: the partial download is removed.
CleanupSkipped(file) == file

Cleanup(file) == "absent"

\* Lines 362-365: the three API error classes are raised as they are.
FinalError(exc) ==
    IF exc \in {"RateLimitError", "TimeoutError", "OverpassAPIError"} THEN exc
    ELSE "RuntimeError"

\* _download_with_retry is called, wait ticks after the fetcher's last
\* request began: lines 275-276.
DlStart(wait) ==
    /\ dl.pc \in {"idle", "returned", "raised"}
    /\ dl' = [dl EXCEPT !.pc = "loop", !.attempt = 0, !.last_exception = "none",
                        !.raised = "none", !.made = 0,
                        !.elapsed = Capped(dl.elapsed + wait)]
    /\ UNCHANGED notDl

\* One iteration of the loop of lines 288-349, and, after the last one, the
\* lines 351-365 that follow the loop. The time the request itself takes
\* is part of the wait that follows it.
DlAttempt(kind, streaming, j) ==
    /\ dl.pc = "loop"
    /\ LET a == dl.attempt
           exc == ExceptionOf(kind)
           file == FileAfter(dl.file, kind, streaming)
           idx == IF HandlerRotates(exc, a) THEN RotateEndpoint(dl.current_endpoint_index)
                  ELSE dl.current_endpoint_index
           this == [ep |-> dl.current_endpoint_index, kind |-> kind,
                    delay |-> IF kind = "ok" THEN 0 ELSE HandlerDelay(exc, a, j),
                    wrote |-> file]
           sleep == SleepTime(dl.elapsed)
           seen == [dl EXCEPT !.att = this, !.prev = dl.att, !.made = dl.made + 1,
                              !.file = file, !.slept = sleep,
                              !.gap = Capped(dl.elapsed + sleep),
                              !.elapsed = Capped(DelayTicks(this.delay)),
                              !.requests = Min(dl.requests + 1, 2)]
       IN  dl' = IF kind = "ok"
                 THEN [seen EXCEPT !.pc = "returned"]
                 ELSE IF a + 1 < MAX_RETRIES
                 THEN [seen EXCEPT !.attempt = a + 1, !.last_exception = exc,
                                   !.current_endpoint_index = idx]
                 ELSE [seen EXCEPT !.attempt = a + 1, !.last_exception = exc,
                                   !.current_endpoint_index = idx,
                                   !.pc = "raised", !.file = Cleanup(file),
                                   !.raised = FinalError(exc)]
    /\ UNCHANGED notDl

InitDl ==
    /\ dl = NewDownloader
    /\ enabled = TRUE
    /\ cdir = enabled
    /\ dir = EmptyDir
    /\ data = EmptyData
    /\ wr = IdleWriters
    /\ rd = NoRead
    /\ kq = NoKeyRequest
    /\ calc = NoCalc
    /\ rq = NoRequests
    /\ tg = NoRun
    /\ vo = NoValidation
    /\ cl = NoClear
    /\ gs = NoSize
    /\ pl = NoPipeline

NextDl ==
    \/ \E wait \in 0..MinIntervalTicks : DlStart(wait)
    \/ \E kind \in Outcomes, streaming \in BOOLEAN, j \in 0..(JitterSteps - 1) :
          DlAttempt(kind, streaming, j)

SpecDl == InitDl /\ [][NextDl]_vars

\* C7: an attempt that receives an HTTP 4xx status other than 429 ends the
\* download: it fails with that error, with no backoff wait and no further
\* attempt.
C7_PermanentNotRetried ==
    dl.att.kind = "http4xx" =>
        /\ dl.pc = "raised"
        /\ dl.raised = "OverpassAPIError"
        /\ dl.att.delay = 0

C9_NextAttemptOnOtherEndpoint ==
    dl.prev.kind \in {"timeout", "http429"} => dl.att.ep # dl.prev.ep

(***************************************************************************)
(* A tile request: OSMDownloader.download, then TileGenerator.generate,    *)
(* both through the cache. Requests run one after the other, so get and    *)
(* put act as a whole on the set of cache entries.                         *)
(***************************************************************************)
MaxRequests == 3

MaxTouches == 1

BBoxes == {"b1", "b2"}

\* cache_osm_data / get_cached_osm_data: the key is the digest of
\* "osm_data_" + bbox_str, the suffix ".osm".
OsmKey(bbox) == <<"osm_data", bbox>>

\* The configuration of a request for a bounding box.
ReqConfig(bbox) ==
    [bbox |-> bbox, min_zoom |-> 0, max_zoom |-> 14, buffer |-> 64,
     quality_profile |-> "balanced", simplification |-> 10, drop_rate |-> 25]

\* The feature type sets a caller that changes the configuration between
\* requests chooses from.
TypeSets == {{"rivers"}, {"rivers", "roads"}}

\* The feature files of a request, last written at mtime.
RequestFs(mtime, types) ==
    [p \in FsPaths |->
        IF \E t \in types : p = FeaturePath("out1", t)
        THEN [BaseFs[p] EXCEPT !.mtime = mtime] ELSE BaseFs[p]]

\* The key generate computes for the request's feature files.
TileKey(bbox, mtime, types) ==
    KeyOf(KeyRequest("out1", types, RequestFs(mtime, types), ReqConfig(bbox)))

\* _download_with_retry's temporary file and _generate_tiles_internal's
\* output file (output_dir / "tileset.mbtiles").
TempOsmPath(bbox) == <<"temp", bbox>>

TilesOutPath == <<"out", "tileset.mbtiles">>

\* A map from paths or keys to bytes, as a set of pairs.
Lookup(m, k) == IF \E e \in m : e.k = k THEN (CHOOSE e \in m : e.k = k).v ELSE <<>>

Has(m, k) == \E e \in m : e.k = k

Store(m, k, v) == {e \in m : e.k # k} \cup {[k |-> k, v |-> v]}

\* CacheManager.get on the entries: the cache path on a hit, else None.
StoreGet(en, entries, key) ==
    IF en /\ Has(entries, key) THEN <<"cache", key>> ELSE NoPath

\* CacheManager.put as a whole: the entry holds the source's bytes and the
\* cache path comes back, or nothing changes and the source path does.
StorePut(en, entries, key, src, bytes, ok) ==
    IF en /\ ok
    THEN [entries |-> Store(entries, key, bytes), path |-> <<"cache", key>>]
    ELSE [entries |-> entries, path |-> src]

\* download's cache check, lines 232-236.
CachedOsmNever(en, entries, bbox) == NoPath

CachedOsm(en, entries, bbox) == StoreGet(en, entries, OsmKey(bbox))

\* generate's cache check, lines 142-147.
CachedTilesNever(en, entries, key) == NoPath

CachedTiles(en, entries, key) == StoreGet(en, entries, key)

\* The bytes at a path a request returned.
BytesAt(r, path) ==
    IF path[1] = "cache" THEN Lookup(r.entries, path[2]) ELSE Lookup(r.outside, path)

\* What the first successful request with these parameters and inputs
\* returned.
PriorOf(r, bbox, types) ==
    IF \E h \in r.hist : h.bbox = bbox /\ h.types = types /\ h.mtime = r.mtime
    THEN (CHOOSE h \in r.hist : h.bbox = bbox /\ h.types = types /\ h.mtime = r.mtime).res
    ELSE NoPrior

\* A caller starts a request for a bounding box and a set of feature types.
\* had records whether a raw-data entry exists for the bounding box then.
ReqStart(bbox, types) ==
    /\ rq.pc \in {"idle", "done", "failed"}
    /\ rq.nreq < MaxRequests
    /\ rq' = [rq EXCEPT !.pc = "download", !.bbox = bbox, !.types = types,
                        !.osm = NoPath, !.tiles = NoPath, !.fetches = 0, !.runs = 0,
                        !.error = "none", !.end = "none", !.looked = FALSE,
                        !.had = Has(rq.entries, OsmKey(bbox)),
                        !.prior = PriorOf(rq, bbox, types), !.nreq = rq.nreq + 1]
    /\ UNCHANGED notRq

\* What the retrying download ends in: a file with the response, an empty
\* file, no file, or an exception.
DownloadOutcomes == {"ok", "empty", "missing", "OverpassAPIError"}

\* The file the retrying download leaves at its temporary path holds the
\* response to the query built from the bounding box and the feature types
\* (lines 240-246).
DownloadedBytes(outcome, bbox, types, n) ==
    IF outcome = "ok" THEN <<"osm", bbox, types, n>> ELSE <<>>

\* Line 249: not output_path.exists() or output_path.stat().st_size == 0.
EmptyOrMissingNever(outcome) == FALSE

EmptyOrMissing(outcome) == outcome \in {"empty", "missing"}

\* OSMDownloader.download, lines 225-262. outcome is what the retrying
\* download ends in; putOk whether the cache write goes through. put
\* returns the source path, without writing, when the source is missing.
ReqDownload(outcome, putOk) ==
    /\ rq.pc = "download"
    /\ LET hit == CachedOsm(enabled, rq.entries, rq.bbox)
           temp == TempOsmPath(rq.bbox)
           bytes == DownloadedBytes(outcome, rq.bbox, rq.types, rq.nfetch + 1)
           tried == [rq EXCEPT !.fetches = rq.fetches + 1, !.nfetch = rq.nfetch + 1]
           left == IF outcome = "missing" THEN tried
                   ELSE [tried EXCEPT !.outside = Store(rq.outside, temp, bytes)]
           put == StorePut(enabled, rq.entries, OsmKey(rq.bbox), temp, bytes,
                           putOk /\ outcome # "missing")
       IN  rq' = IF hit # NoPath
                 THEN [rq EXCEPT !.pc = "generate", !.osm = hit]
                 ELSE IF outcome = "OverpassAPIError"
                 THEN [tried EXCEPT !.pc = "failed", !.error = outcome]
                 ELSE IF EmptyOrMissing(outcome)
                 THEN [left EXCEPT !.pc = "failed", !.error = "RuntimeError"]
                 ELSE [left EXCEPT !.pc = "generate", !.osm = put.path,
                                   !.entries = put.entries]
    /\ UNCHANGED notRq

\* What subprocess.run(["tippecanoe", "--version"], check=True, timeout=10)
\* ends in: it returns, or raises one of these.
ToolChecks ==
    {"ok", "FileNotFoundError", "CalledProcessError", "TimeoutExpired", "PermissionError"}

\* _validate_tippecanoe, lines 178-207: the exception that leaves it. The
\* three handlers raise TippecanoeError; any other exception passes through.
ValidateTippecanoe(tool) ==
    IF tool = "ok" THEN "none"
    ELSE IF tool \in {"TimeoutExpired", "CalledProcessError", "FileNotFoundError"}
    THEN "TippecanoeError"
    ELSE tool

\* Where generate ends, lines 132-176: at the executable check, at the input
\* validation, at the cache hit, in the retrying generation, in
\* _validate_output, or at the cache write.
GenerateEndUnvalidated(toolError, inputs, hit, built, valid) ==
    IF toolError # "none" THEN "check"
    ELSE IF ~inputs THEN "inputs"
    ELSE IF hit THEN "hit"
    ELSE IF ~built THEN "build"
    ELSE "store"

GenerateEnd(toolError, inputs, hit, built, valid) ==
    IF toolError # "none" THEN "check"
    ELSE IF ~inputs THEN "inputs"
    ELSE IF hit THEN "hit"
    ELSE IF ~built THEN "build"
    ELSE IF ~valid THEN "validate"
    ELSE "store"

\* TileGenerator.generate, lines 132-176. tool: what the executable check
\* ends in; inputs: the input validation passes; built: the retrying
\* generation succeeds; valid: _validate_output passes; putOk: the cache
\* write goes through. The archive the generation leaves holds whether
\* _validate_output passes for it; looked records that the cache lookup of
\* lines 142-147 was reached.
ReqGenerate(tool, inputs, built, valid, putOk) ==
    /\ rq.pc = "generate"
    /\ LET key == TileKey(rq.bbox, rq.mtime, rq.types)
           hit == CachedTiles(enabled, rq.entries, key)
           end == GenerateEnd(ValidateTippecanoe(tool), inputs, hit # NoPath, built, valid)
           bytes == <<"tiles", rq.bbox, rq.nrun + 1, valid>>
           stopped == [rq EXCEPT !.end = end]
           at == [stopped EXCEPT !.looked = TRUE]
           ran == [at EXCEPT !.runs = rq.runs + 1, !.nrun = rq.nrun + 1]
           made == [ran EXCEPT !.outside = Store(rq.outside, TilesOutPath, bytes)]
           put == StorePut(enabled, rq.entries, key, TilesOutPath, bytes, putOk)
           done == IF end = "hit"
                   THEN [at EXCEPT !.pc = "done", !.tiles = hit]
                   ELSE [made EXCEPT !.pc = "done", !.tiles = put.path,
                                     !.entries = put.entries]
           res == [found |-> TRUE, osm |-> done.osm, tiles |-> done.tiles,
                   bytes |-> BytesAt(done, done.tiles)]
       IN  rq' = IF end = "check"
                 THEN [stopped EXCEPT !.pc = "failed", !.error = ValidateTippecanoe(tool)]
                 ELSE IF end = "inputs"
                 THEN [stopped EXCEPT !.pc = "failed", !.error = "TileGenerationError"]
                 ELSE IF end = "build"
                 THEN [ran EXCEPT !.pc = "failed", !.error = "TileGenerationError"]
                 ELSE IF end = "validate"
                 THEN [made EXCEPT !.pc = "failed", !.error = "ValidationError"]
                 ELSE IF rq.prior.found THEN done
                 ELSE [done EXCEPT !.hist = rq.hist \cup
                          {[bbox |-> rq.bbox, types |-> rq.types, mtime |-> rq.mtime,
                            res |-> res]}]
    /\ UNCHANGED notRq

\* The feature files are written again between two requests.
TouchInputs ==
    /\ rq.pc \in {"idle", "done", "failed"}
    /\ rq.mtime <= MaxTouches
    /\ rq' = [rq EXCEPT !.mtime = rq.mtime + 1]
    /\ UNCHANGED notRq

InitRq ==
    /\ rq = NoRequests
    /\ tg = NoRun
    /\ vo = NoValidation
    /\ cl = NoClear
    /\ gs = NoSize
    /\ pl = NoPipeline
    /\ enabled \in BOOLEAN
    /\ cdir = enabled
    /\ dir = EmptyDir
    /\ data = EmptyData
    /\ wr = IdleWriters
    /\ rd = NoRead
    /\ kq = NoKeyRequest
    /\ calc = NoCalc
    /\ dl = NewDownloader

NextRq ==
    \/ \E b \in BBoxes : ReqStart(b, ConfiguredTypes)
    \/ \E outcome \in DownloadOutcomes, putOk \in BOOLEAN :
          ReqDownload(outcome, putOk)
    \/ \E tool \in ToolChecks \ {"ok"} : ReqGenerate(tool, TRUE, TRUE, TRUE, TRUE)
    \/ \E inputs \in BOOLEAN, built \in BOOLEAN, valid \in BOOLEAN, putOk \in BOOLEAN :
          ReqGenerate("ok", inputs, built, valid, putOk)
    \/ TouchInputs

SpecRq == InitRq /\ [][NextRq]_vars

TG_MAX_RETRIES == 3

DEFAULT_TIMEOUT == 3600

\* The clock advances in steps of TickSeconds while a child runs.
TickSeconds == 1800

MaxRuns == 1

\* config.tiles.drop_rate, in tenths: 0.0, 2.5, 8.0 and 12.0.
DropRates == {0, 25, 80, 120}

\* Drop rates are kept exactly, in units of 1 / (10 * DropScale).
DropScale == 2 ^ (TG_MAX_RETRIES - 1)

\* Lines 538-541: the configured rate at attempt 0, then
\* min(drop_rate * 1.5 ** attempt, 10.0).
DropRate(rate, attempt) ==
    IF attempt > 0
    THEN Min((rate * 3 ^ attempt * DropScale) \div (2 ^ attempt), 100 * DropScale)
    ELSE rate * DropScale

\* config.tiles.simplification of the runs, in tenths: the default 1.0 with
\* the lower drop rates, 3.0 with the higher ones.
SimplificationOf(rate) == IF rate >= 80 THEN 30 ELSE 10

\* Lines 552-557: --simplification is the configured value at every attempt.
Simplification(simp, attempt) == simp

\* _parse_tippecanoe_error's classes of a non-zero exit, lines 777-792.
ExitClasses == {"oom", "killed", "missing", "malformed", "empty", "unknown"}

\* Lines 367-372: a retry sleeps and is counted before the attempt.
RetriesAtAlways(attempt, r) == r + 1

RetriesAt(attempt, r) == IF attempt > 0 THEN r + 1 ELSE r

\* The handlers of _generate_with_retry, lines 376-403: TRUE for continue,
\* FALSE for break.
ContinuesNever(kind, attempt) == FALSE

Continues(kind, attempt) ==
    IF kind = "memory_error" THEN TRUE
    ELSE IF kind \in {"oom", "killed"} THEN TRUE
    ELSE attempt # TG_MAX_RETRIES - 1

\* An attempt has raised: the handler, then the next iteration or the raise
\* after the loop, lines 376-408.
Handle(t, kind) ==
    LET seen == [t EXCEPT !.kinds = Append(t.kinds, kind), !.failed = TRUE,
                          !.child = "none"]
    IN  IF Continues(kind, t.attempt) /\ t.attempt + 1 < TG_MAX_RETRIES
        THEN [seen EXCEPT !.pc = "loop", !.attempt = t.attempt + 1]
        ELSE [seen EXCEPT !.pc = "raised", !.error = "TileGenerationError"]

\* _generate_with_retry is called with a configured drop rate.
TgStart(rate) ==
    /\ tg.pc \in {"idle", "returned", "raised"}
    /\ tg.runs < MaxRuns
    /\ tg' = [tg EXCEPT !.pc = "loop", !.attempt = 0, !.made = 0, !.spawned = 0,
                        !.retries0 = tg.retries, !.rate = rate, !.rates = <<>>,
                        !.simps = <<>>,
                        !.kinds = <<>>, !.child = "none", !.waited = FALSE,
                        !.exit = "none",
                        !.temp = "absent", !.before = tg.final, !.failed = FALSE,
                        !.monitor = "none", !.mem = "normal", !.crit = FALSE,
                        !.clock = 0, !.runs = tg.runs + 1, !.result = 0,
                        !.error = "none"]
    /\ UNCHANGED notTg

\* One iteration up to the spawn, lines 366-374, 423-452 and 613-643: the
\* sleep and the count of a retry, the command, the monitor of attempt 0,
\* the check of the executable, Popen. early: an exception is raised while
\* the command is built; tool: the executable is found and executable.
TgBeginAttempt(tool, early) ==
    /\ tg.pc = "loop"
    /\ LET a == tg.attempt
           t == [tg EXCEPT !.retries = RetriesAt(a, tg.retries),
                           !.made = tg.made + 1, !.serial = tg.serial + 1,
                           !.rates = Append(tg.rates, DropRate(tg.rate, a)),
                           !.simps = Append(tg.simps,
                                            Simplification(SimplificationOf(tg.rate), a)),
                           !.temp = "absent", !.before = tg.final,
                           !.failed = FALSE, !.child = "none", !.waited = FALSE,
                           !.printed = 0, !.output_lines = <<>>,
                           !.exit = "none",
                           !.crit = FALSE, !.clock = 0, !.monitor = "none"]
           m == [t EXCEPT !.monitor = IF a = 0 THEN "running" ELSE "none"]
       IN  tg' = IF early THEN Handle(t, "memory_error")
                 ELSE IF ~tool THEN [m EXCEPT !.pc = "await_err", !.exit = "not_found"]
                 ELSE [m EXCEPT !.pc = "reading", !.child = "running",
                                !.spawned = tg.spawned + 1]
    /\ UNCHANGED notTg

\* The child process writes its output file.
ChildWrite ==
    /\ tg.child = "running"
    /\ tg.temp # "complete"
    /\ tg' = [tg EXCEPT !.temp = IF tg.temp = "absent" THEN "partial" ELSE "complete"]
    /\ UNCHANGED notTg

\* The child process ends: with code 0, or with a failure of some class.
ChildExit(kind) ==
    /\ tg.child = "running"
    /\ kind = "ok" => tg.temp \in {"absent", "complete"}
    /\ tg' = [tg EXCEPT !.child = "exited", !.exit = kind]
    /\ UNCHANGED notTg

\* Time passes while the child runs.
Tick ==
    /\ tg.child = "running"
    /\ tg.clock <= DEFAULT_TIMEOUT
    /\ tg' = [tg EXCEPT !.clock = tg.clock + TickSeconds]
    /\ UNCHANGED notTg

\* System memory usage goes above 95%.
MemCritical ==
    /\ tg.pc \in {"reading", "await_ok", "await_err"}
    /\ tg.mem = "normal"
    /\ tg' = [tg EXCEPT !.mem = "critical"]
    /\ UNCHANGED notTg

\* One round of _monitor_memory, lines 797-824: above 95% the thread ends
\* with MemoryError, which stays in its future.
MonitorPoll ==
    /\ tg.monitor = "running"
    /\ tg.mem = "critical"
    /\ tg' = [tg EXCEPT !.monitor = "raised", !.crit = (tg.child = "running")]
    /\ UNCHANGED notTg

\* The read loop ends at end of output once the child has exited, lines
\* 648-681: the exit code decides.
TgReap ==
    /\ tg.pc = "reading"
    /\ tg.child = "exited"
    /\ tg' = [tg EXCEPT !.pc = IF tg.exit = "ok" THEN "await_ok" ELSE "await_err",
                        !.waited = TRUE]
    /\ UNCHANGED notTg

\* The lines of output a child prints.
MaxLines == 22

\* output_lines[-20:], line 675: the lines used to classify an error.
ERROR_CONTEXT_LINES == 20

\* Line 654: output_lines.append(line).
Buffered(lines, line) == Append(lines, line)

\* The child prints a line and the read loop takes it, lines 648-668.
TgReadLine ==
    /\ tg.pc = "reading"
    /\ tg.child = "running"
    /\ tg.printed < MaxLines
    /\ tg' = [tg EXCEPT !.printed = tg.printed + 1,
                        !.output_lines = Buffered(tg.output_lines, tg.printed + 1)]
    /\ UNCHANGED notTg

\* The handler of `except Exception`, lines 737-747: terminate (or kill)
\* and wait. The handlers of the OSError classes leave the child alone.
AfterHandler(exc, child) ==
    IF exc = "Exception" /\ child = "running" THEN "terminated" ELSE child

\* The finally of lines 748-758: a child that poll() finds running is
\* terminated (or killed) and waited for; poll() reaps one that has exited.
AfterFinallySkipped(child) == child

AfterFinally(child) == IF child = "running" THEN "terminated" ELSE "reaped"

\* The read loop raises while the child runs or before its exit is seen:
\* an OSError from the pipe, or another exception (a line that cannot be
\* decoded). Lines 721-758.
TgReadError(exc) ==
    /\ tg.pc = "reading"
    /\ tg.child \in {"running", "exited"}
    /\ LET c == AfterFinally(AfterHandler(exc, tg.child))
       IN  tg' = [tg EXCEPT !.pc = "await_err",
                           !.child = IF c \in {"terminated", "reaped"} THEN "exited" ELSE c,
                           !.waited = c \in {"terminated", "reaped"},
                           !.exit = IF exc = "OSError" THEN "system_error"
                                    ELSE "unexpected"]
    /\ UNCHANGED notTg

\* executor.shutdown(wait=True) returns when the monitor thread has ended.
MonitorJoined(t) == t.monitor # "running"

\* Lines 486-495 and the handler: the temporary output is deleted.
TgCleanup ==
    /\ tg.pc = "await_err"
    /\ MonitorJoined(tg)
    /\ tg' = Handle([tg EXCEPT !.temp = "absent"], tg.exit)
    /\ UNCHANGED notTg

\* Lines 479-484: the child ended with code 0 and left no output file.
TgNoOutput ==
    /\ tg.pc = "await_ok"
    /\ MonitorJoined(tg)
    /\ tg.temp = "absent"
    /\ tg' = Handle(tg, "no_output")
    /\ UNCHANGED notTg

\* shutil.move within one file system is a rename, lines 469-484.
TgMoveRename ==
    /\ tg.pc = "await_ok"
    /\ MonitorJoined(tg)
    /\ tg.temp = "complete"
    /\ ~tg.xdev
    /\ tg' = [tg EXCEPT !.pc = "returned", !.final = tg.serial, !.temp = "absent",
                        !.result = tg.serial, !.kinds = Append(tg.kinds, "ok"),
                        !.child = "none"]
    /\ UNCHANGED notTg

\* shutil.move across file systems copies to the final path, then deletes
\* the temporary file.
TgMoveCopyBegin ==
    /\ tg.pc = "await_ok"
    /\ MonitorJoined(tg)
    /\ tg.temp = "complete"
    /\ tg.xdev
    /\ tg' = [tg EXCEPT !.pc = "copying", !.final = -1]
    /\ UNCHANGED notTg

TgMoveCopyEnd(ok) ==
    /\ tg.pc = "copying"
    /\ tg' = IF ok
             THEN [tg EXCEPT !.pc = "returned", !.final = tg.serial,
                             !.temp = "absent", !.result = tg.serial,
                             !.kinds = Append(tg.kinds, "ok"), !.child = "none"]
             ELSE Handle([tg EXCEPT !.temp = "absent"], "move_failed")
    /\ UNCHANGED notTg

InitTg ==
    /\ \E x \in BOOLEAN : tg = [NoRun EXCEPT !.xdev = x]
    /\ vo = NoValidation
    /\ cl = NoClear
    /\ gs = NoSize
    /\ pl = NoPipeline
    /\ rq = NoRequests
    /\ enabled = TRUE
    /\ cdir = enabled
    /\ dir = EmptyDir
    /\ data = EmptyData
    /\ wr = IdleWriters
    /\ rd = NoRead
    /\ kq = NoKeyRequest
    /\ calc = NoCalc
    /\ dl = NewDownloader

NextTg ==
    \/ \E rate \in DropRates : TgStart(rate)
    \/ \E tool \in BOOLEAN, early \in BOOLEAN : TgBeginAttempt(tool, early)
    \/ ChildWrite
    \/ \E kind \in ExitClasses \cup {"ok"} : ChildExit(kind)
    \/ Tick
    \/ MemCritical
    \/ MonitorPoll
    \/ TgReap
    \/ \E exc \in {"OSError", "Exception"} : TgReadError(exc)
    \/ TgCleanup
    \/ TgNoOutput
    \/ TgMoveRename
    \/ TgMoveCopyBegin
    \/ \E ok \in BOOLEAN : TgMoveCopyEnd(ok)

SpecTg == InitTg /\ [][NextTg]_vars

\* The attempts of the run that failed so far were all out-of-memory,
\* killed or MemoryError failures.
OnlyMemoryFailures(t) ==
    \A i \in 1..Len(t.kinds) :
        t.kinds[i] \in {"oom", "killed", "memory_error", "ok"}

\* C12: a run whose first k attempts fail with an out-of-memory or killed
\* signature or a MemoryError and whose attempt k+1 succeeds returns the
\* artifact of attempt k+1 and has counted exactly k retries.
C12_RetriesCounted ==
    (tg.pc = "returned" /\ OnlyMemoryFailures(tg)) =>
        /\ tg.made = Len(tg.kinds)
        /\ tg.result = tg.serial
        /\ tg.final = tg.result
        /\ tg.retries - tg.retries0 = Len(tg.kinds) - 1

\* Two out-of-memory failures, then a success: 2 retries.
C12_Witness ==
    /\ tg.pc = "returned"
    /\ tg.kinds = <<"oom", "oom", "ok">>
    /\ tg.retries = tg.retries0 + 2
    /\ tg.final = tg.serial

\* C13: the drop rate passed to the tool is strictly greater at each
\* attempt of a run than at the attempt before.
C13_DropRateIncreases ==
    \A i \in 1..(Len(tg.rates) - 1) : tg.rates[i + 1] > tg.rates[i]

\* C14: a first attempt that fails as malformed-input or missing-input ends
\* the run: one attempt, no retry performed, no retry counted.
C14_MalformedNotRetried ==
    (Len(tg.kinds) >= 1 /\ tg.kinds[1] \in {"malformed", "missing"}) =>
        /\ tg.pc = "raised"
        /\ tg.made = 1
        /\ tg.retries = tg.retries0

\* C15: a missing or non-executable tool ends the run after one attempt,
\* without a child process.
C15_MissingToolNotRetried ==
    (Len(tg.kinds) >= 1 /\ tg.kinds[1] = "not_found") =>
        /\ tg.pc = "raised"
        /\ tg.made = 1
        /\ tg.spawned = 0

\* C16: when the monitor has seen critical memory usage while the child of
\* the first attempt was running, that attempt ends as a memory-pressure
\* failure, not with the child's own end.
C16_CriticalMemoryAborts ==
    (tg.crit /\ tg.made = 1 /\ Len(tg.kinds) = 1) =>
        tg.kinds[1] = "memory_pressure"

\* C17: no child process is still running after the timeout has expired.
C17_TimeoutTerminatesChild ==
    tg.clock > DEFAULT_TIMEOUT => tg.child # "running"

\* C18: while the child runs and after a failed attempt the final path is
\* as it was before the attempt, a failed attempt leaves no temporary
\* output, and the final path changes only after an exit with code 0.
C18_FinalOnlyByMove ==
    /\ tg.child = "running" => tg.final = tg.before
    /\ tg.failed => (tg.final = tg.before /\ tg.temp = "absent")
    /\ tg.final # tg.before => tg.exit = "ok"

(***************************************************************************)
(* TileGenerator._validate_output                                          *)
(***************************************************************************)
MAX_VALIDATION_RETRIES == 3

VALIDATION_DELAY == 2

\* The output file when _validate_output is called.
OutputFiles == {"missing", "empty", "present"}

\* What one inspection of the archive finds: a valid archive, one that is
\* not yet flushed, or one that sqlite3 reports as corrupted or locked.
NotFlushed == {"no_format", "no_tiles", "no_sample"}

Looks == {"valid", "no_tables", "null_zoom", "corrupt", "locked"} \cup NotFlushed

\* The archive an inspection reads. A table is absent, has no rows, has
\* rows whose zoom levels are all NULL, has rows whose first tile_data is
\* empty, or has rows with zoom levels and tile data.
Archives ==
    [metadata : BOOLEAN, format : BOOLEAN,
     tiles : {"absent", "empty", "null_zoom", "blank", "ok"},
     map : {"absent", "empty", "null_zoom", "ok"},
     images : {"absent", "empty", "blank", "ok"}]

\* Lines 905-906: the two storage layouts.
HasOldFormat(a) == a.tiles # "absent"

HasNewFormat(a) == a.map # "absent" /\ a.images # "absent"

\* Lines 940-978: the table whose rows are counted and whose zoom levels
\* are read: tiles when it is there, else map.
CountedTable(a) == IF a.tiles # "absent" THEN a.tiles ELSE a.map

\* Lines 996-1013: the first tile_data of tiles, else of images, is there
\* and is not empty.
SampleOkAlways(a) == TRUE

SampleOk(a) ==
    IF a.tiles # "absent" THEN a.tiles \in {"null_zoom", "ok"}
    ELSE a.images = "ok"

\* Lines 895-1013: what the checks of one inspection find in an archive
\* that sqlite3 can read, in the order of the code.
Classify(a) ==
    IF ~a.metadata \/ ~(HasOldFormat(a) \/ HasNewFormat(a)) THEN "no_tables"
    ELSE IF ~a.format THEN "no_format"
    ELSE IF CountedTable(a) = "empty" THEN "no_tiles"
    ELSE IF CountedTable(a) = "null_zoom" THEN "null_zoom"
    ELSE IF ~SampleOk(a) THEN "no_sample"
    ELSE "valid"

\* Lines 864-868: the checks before the loop.
RejectedMissingOnly(file) == file = "missing"

Rejected(file) == file \in {"missing", "empty"}

\* attempt < max_validation_retries - 1
RetryLeftNever(attempt) == FALSE

RetryLeft(attempt) == attempt < MAX_VALIDATION_RETRIES - 1

\* The inner try of one iteration, lines 884-1046: "return", "continue"
\* after the pause, or "raise" of a ValidationError.
Inspect(look, attempt) ==
    IF look = "valid" THEN "return"
    ELSE IF look \in {"corrupt", "locked"} THEN "raise"
    ELSE IF RetryLeft(attempt) THEN "continue"
    ELSE "raise"

\* The outer handlers, lines 1050-1067: an exception of the iteration is
\* retried after the pause while attempts are left.
OuterHandler(attempt) == IF RetryLeft(attempt) THEN "continue" ELSE "raise"

\* _validate_output is called on an output file.
VoStart(file) ==
    /\ vo.pc = "idle"
    /\ vo' = IF Rejected(file)
             THEN [vo EXCEPT !.pc = "done", !.file = file, !.outcome = "ValidationError"]
             ELSE [vo EXCEPT !.pc = "loop", !.file = file]
    /\ UNCHANGED notVo

\* One iteration of the loop, lines 874-1067: the archive is opened and
\* inspected, and the iteration returns, pauses and continues, or raises.
VoInspect(look, a) ==
    /\ vo.pc = "loop"
    /\ LET inner == Inspect(look, vo.inspections)
           step == IF inner = "raise" THEN OuterHandler(vo.inspections) ELSE inner
           seen == [vo EXCEPT !.inspections = vo.inspections + 1, !.opened = vo.opened + 1,
                              !.looks = Append(vo.looks, look), !.archive = a]
       IN  vo' = IF step = "return"
                 THEN [seen EXCEPT !.pc = "done", !.outcome = "valid"]
                 ELSE IF step = "continue"
                 THEN [seen EXCEPT !.slept = vo.slept + VALIDATION_DELAY]
                 ELSE [seen EXCEPT !.pc = "done", !.outcome = "ValidationError"]
    /\ UNCHANGED notVo

InitVo ==
    /\ vo = NoValidation
    /\ cl = NoClear
    /\ gs = NoSize
    /\ pl = NoPipeline
    /\ tg = NoRun
    /\ rq = NoRequests
    /\ enabled = TRUE
    /\ cdir = enabled
    /\ dir = EmptyDir
    /\ data = EmptyData
    /\ wr = IdleWriters
    /\ rd = NoRead
    /\ kq = NoKeyRequest
    /\ calc = NoCalc
    /\ dl = NewDownloader

NextVo ==
    \/ \E file \in OutputFiles : VoStart(file)
    \/ \E a \in Archives : VoInspect(Classify(a), a)
    \/ \E look \in {"corrupt", "locked"} : VoInspect(look, vo.archive)

SpecVo == InitVo /\ [][NextVo]_vars

\* C19: the archive is inspected at most 3 times with a 2-second pause
\* between inspections; when the inspections before the last found it not
\* yet flushed and the last finds it valid, validation succeeds; when it is
\* found not yet flushed every time, a ValidationError is raised, and only
\* after 3 inspections.
C19_ValidationRetries ==
    /\ vo.inspections <= MAX_VALIDATION_RETRIES
    /\ (vo.pc = "done" /\ vo.file = "present"
            /\ \A i \in 1..(Len(vo.looks) - 1) : vo.looks[i] \in NotFlushed) =>
          /\ vo.slept = VALIDATION_DELAY * (Len(vo.looks) - 1)
          /\ vo.looks[Len(vo.looks)] = "valid" => vo.outcome = "valid"
          /\ vo.looks[Len(vo.looks)] \in NotFlushed =>
                (vo.outcome = "ValidationError" /\ Len(vo.looks) = MAX_VALIDATION_RETRIES)

\* Not flushed twice, valid at the third inspection.
C19_Witness ==
    /\ vo.pc = "done"
    /\ vo.looks = <<"no_tiles", "no_format", "valid">>
    /\ vo.outcome = "valid"
    /\ vo.slept = 2 * VALIDATION_DELAY

\* C20: a missing or zero-length output file is rejected with a
\* ValidationError before the archive is opened, with no retry and no pause.
C20_EmptyRejectedAtOnce ==
    (vo.pc # "idle" /\ vo.file \in {"missing", "empty"}) =>
        /\ vo.pc = "done"
        /\ vo.outcome = "ValidationError"
        /\ vo.opened = 0
        /\ vo.inspections = 0
        /\ vo.slept = 0

C20_Witness ==
    /\ vo.pc = "done"
    /\ vo.file = "empty"
    /\ vo.outcome = "ValidationError"
    /\ vo.opened = 0

\* C21: an inspection that finds the archive corrupted or not a database
\* ends the validation with a ValidationError: no pause and no further
\* inspection.
C21_CorruptionNotRetried ==
    \A i \in 1..Len(vo.looks) : vo.looks[i] = "corrupt" =>
        /\ vo.pc = "done"
        /\ vo.outcome = "ValidationError"
        /\ vo.inspections = i
        /\ vo.slept = VALIDATION_DELAY * (i - 1)

(***************************************************************************)
(* CacheManager.clear and CacheManager.get_size, step by step, next to     *)
(* running put calls                                                       *)
(***************************************************************************)
\* The names the directory holds: what scandir lists.
Listing(d) == {n \in Names : d[n] # 0}

\* cache_dir.mkdir(parents=True, exist_ok=True), line 263.
AfterMkdirSkipped(exists) == exists

AfterMkdir(exists) == TRUE

\* clear up to rmtree's listing of the directory, lines 257-262. strict:
\* this build's rmtree raises when an entry it listed is gone at unlink.
ClearStart(strict) ==
    /\ cl.pc \in {"idle", "done"}
    /\ cl' = IF ~enabled \/ ~cdir
             THEN [NoClear EXCEPT !.pc = "done"]
             ELSE [NoClear EXCEPT !.pc = "unlink", !.todo = Listing(dir),
                                  !.strict = strict]
    /\ UNCHANGED <<enabled, dir, data, wr, rd, cdir, gs>>
    /\ UNCHANGED notParts

\* rmtree unlinks one listed entry; an entry that is gone raises or is
\* passed over.
ClearUnlink(n) ==
    /\ cl.pc = "unlink"
    /\ n \in cl.todo
    /\ IF dir[n] = 0
       THEN /\ cl' = IF cl.strict
                     THEN [cl EXCEPT !.pc = "done", !.raised = TRUE, !.todo = {}]
                     ELSE [cl EXCEPT !.todo = cl.todo \ {n}]
            /\ UNCHANGED <<dir, data>>
       ELSE LET nd == [dir EXCEPT ![n] = 0]
            IN  /\ dir' = nd
                /\ data' = Reclaim(nd, wr, data)
                /\ cl' = [cl EXCEPT !.todo = cl.todo \ {n},
                                    !.removed = cl.removed \cup {n}]
    /\ UNCHANGED <<enabled, wr, rd, cdir, gs>>
    /\ UNCHANGED notParts

\* rmtree removes the directory itself: refused while it holds a file.
ClearRmdir ==
    /\ cl.pc = "unlink"
    /\ cl.todo = {}
    /\ IF Listing(dir) # {}
       THEN /\ cl' = [cl EXCEPT !.pc = "done", !.raised = TRUE]
            /\ UNCHANGED cdir
       ELSE /\ cl' = [cl EXCEPT !.pc = "mkdir"]
            /\ cdir' = FALSE
    /\ UNCHANGED <<enabled, dir, data, wr, rd, gs>>
    /\ UNCHANGED notParts

\* Line 263: the directory is created again and clear returns.
ClearMkdir ==
    /\ cl.pc = "mkdir"
    /\ cdir' = AfterMkdir(cdir)
    /\ cl' = [cl EXCEPT !.pc = "done"]
    /\ UNCHANGED <<enabled, dir, data, wr, rd, gs>>
    /\ UNCHANGED notParts

\* The exceptions get_size passes over, lines 284-290.
SizeErrorCaughtNone(e) == FALSE

SizeErrorCaught(e) ==
    \/ e \in {"OSError", "FileNotFoundError"}
    \/ e \in {"Exception"}

\* get_size up to its check of the directory, lines 273-274.
GsStart ==
    /\ gs.pc \in {"idle", "done"}
    /\ gs' = IF ~enabled \/ ~cdir
             THEN [NoSize EXCEPT !.pc = "done"]
             ELSE [NoSize EXCEPT !.pc = "list"]
    /\ UNCHANGED <<enabled, dir, data, wr, rd, cdir, cl>>
    /\ UNCHANGED notParts

\* rglob("*") listing the directory, line 277. A directory removed since
\* the check makes scandir raise FileNotFoundError outside the try of the
\* loop body; a lenient pathlib passes over it and lists nothing.
GsList(lenient) ==
    /\ gs.pc = "list"
    /\ gs' = IF cdir
             THEN [gs EXCEPT !.pc = "scan", !.todo = Listing(dir),
                             !.listing = Listing(dir), !.listed = TRUE]
             ELSE IF lenient
             THEN [gs EXCEPT !.pc = "scan", !.listed = TRUE]
             ELSE [gs EXCEPT !.pc = "done", !.raised = TRUE]
    /\ UNCHANGED <<enabled, dir, data, wr, rd, cdir, cl>>
    /\ UNCHANGED notParts

\* file_path.is_file(), line 279: False for an entry that is gone.
GsIsFile(n) ==
    /\ gs.pc = "scan"
    /\ n \in gs.todo
    /\ gs' = IF dir[n] = 0
             THEN [gs EXCEPT !.todo = gs.todo \ {n}, !.skipped = gs.skipped \cup {n}]
             ELSE [gs EXCEPT !.todo = gs.todo \ {n}, !.cur = n, !.pc = "lstat"]
    /\ UNCHANGED <<enabled, dir, data, wr, rd, cdir, cl>>
    /\ UNCHANGED notParts

\* file_path.lstat(), lines 281-283: the size is added, or the entry is
\* gone by now and lstat raises FileNotFoundError.
GsLstat ==
    /\ gs.pc = "lstat"
    /\ gs' = IF dir[gs.cur] # 0
             THEN [gs EXCEPT !.pc = "scan",
                             !.total = gs.total + Len(data[dir[gs.cur]]),
                             !.counted = gs.counted \cup
                                 {[name |-> gs.cur, size |-> Len(data[dir[gs.cur]])]}]
             ELSE IF SizeErrorCaught("FileNotFoundError")
             THEN [gs EXCEPT !.pc = "scan", !.skipped = gs.skipped \cup {gs.cur}]
             ELSE [gs EXCEPT !.pc = "done", !.raised = TRUE]
    /\ UNCHANGED <<enabled, dir, data, wr, rd, cdir, cl>>
    /\ UNCHANGED notParts

\* Line 292: return total_size.
GsReturn ==
    /\ gs.pc = "scan"
    /\ gs.todo = {}
    /\ gs' = [gs EXCEPT !.pc = "done"]
    /\ UNCHANGED <<enabled, dir, data, wr, rd, cdir, cl>>
    /\ UNCHANGED notParts

ClearStep ==
    \/ \E strict \in BOOLEAN : ClearStart(strict)
    \/ \E n \in Names : ClearUnlink(n)
    \/ ClearRmdir
    \/ ClearMkdir

SizeStep ==
    \/ GsStart
    \/ \E lenient \in BOOLEAN : GsList(lenient)
    \/ \E n \in Names : GsIsFile(n)
    \/ GsLstat
    \/ GsReturn

\* A put of a whole source file, with room and permissions.
PutPlain(w, k) ==
    \E p \in {SrcPath("srcA"), SrcPath("srcB")} : PutStart(w, k, p, MaxFree, TRUE)

InitShared ==
    /\ enabled = TRUE
    /\ cdir = enabled
    /\ dir = EmptyDir
    /\ data = EmptyData
    /\ wr = IdleWriters
    /\ rd = NoRead
    /\ cl = NoClear
    /\ gs = NoSize
    /\ pl = NoPipeline
    /\ kq = NoKeyRequest
    /\ calc = NoCalc
    /\ dl = NewDownloader
    /\ rq = NoRequests
    /\ tg = NoRun
    /\ vo = NoValidation

\* Two writers putting under the same key.
NextCache2 ==
    \/ \E w \in Writers : PutPlain(w, "k1")
    \/ \E w \in Writers : PutOpen(w)
    \/ \E w \in Writers : PutWrite(w)
    \/ \E w \in Writers : PutRename(w, FALSE)
    \/ \E w \in Writers : PutCleanup(w)
    \/ \E w \in Writers : PutReturn(w)

SpecCache2 == InitShared /\ [][NextCache2]_vars

\* One writer, clear and get_size running side by side.
NextClear ==
    \/ PutPlain("w1", "k1")
    \/ PutOpen("w1")
    \/ PutWrite("w1")
    \/ PutRename("w1", FALSE)
    \/ PutCleanup("w1")
    \/ PutReturn("w1")
    \/ ClearStep
    \/ SizeStep

SpecClear == InitShared /\ [][NextClear]_vars

RECURSIVE SumSizes(_)
SumSizes(S) ==
    IF S = {} THEN 0
    ELSE LET c == CHOOSE x \in S : TRUE IN c.size + SumSizes(S \ {c})

C23_NeverPartialAtCachePath ==
    \A k \in Keys :
        FileAt(get_path(k)).ex => FileAt(get_path(k)).bytes \in CompleteContents

\* The put of a racing pair raises nothing and returns the cache path or
\* the source path.
PutEndsQuietly ==
    \A w \in Writers : wr[w].pc = "done" =>
        /\ ~wr[w].raised
        /\ wr[w].ret \in {get_path(wr[w].key), wr[w].src}

\* The clear of a racing pair completes and leaves the directory existing.
ClearCompletes == cl.pc = "done" => (~cl.raised /\ cdir)

\* C24: clear is safe to race a running put: put raises nothing and returns
\* the cache path or the source path, clear completes and leaves the cache
\* directory existing, and the cache path is absent or holds complete
\* contents.
C24_ClearSafeAgainstPut ==
    /\ PutEndsQuietly
    /\ ClearCompletes
    /\ C23_NeverPartialAtCachePath

(***************************************************************************)
(* The cache used by one caller: get, put, get_size and clear one after    *)
(* the other                                                               *)
(***************************************************************************)
\* No call on the cache is running.
Quiet ==
    /\ \A w \in Writers : wr[w].pc = "idle"
    /\ cl.pc \in {"idle", "done"}
    /\ gs.pc \in {"idle", "done"}

\* The puts of the caller: of two different files and of a file that is
\* not there, with and without room for the copy.
SeqInputs == {SrcPath("srcA"), SrcPath("srcB"), SrcPath("srcMissing")}

NextSeq ==
    \/ /\ Quiet
       /\ \E k \in Keys, p \in SeqInputs, free \in {0, MaxFree} :
              PutStart("w1", k, p, free, TRUE)
    \/ PutOpen("w1")
    \/ PutWrite("w1")
    \/ PutCopyFail("w1", "OSError")
    \/ \E refused \in BOOLEAN : PutRename("w1", refused)
    \/ PutCleanup("w1")
    \/ PutReturn("w1")
    \/ /\ Quiet
       /\ \E k \in Keys : ReaderGet(k)
    \/ /\ Quiet
       /\ \E strict \in BOOLEAN : ClearStart(strict)
    \/ \E n \in Names : ClearUnlink(n)
    \/ ClearRmdir
    \/ ClearMkdir
    \/ /\ Quiet
       /\ GsStart
    \/ \E lenient \in BOOLEAN : GsList(lenient)
    \/ \E n \in Names : GsIsFile(n)
    \/ GsLstat
    \/ GsReturn

SpecSeq == InitShared /\ [][NextSeq]_vars

\* A step that turns a hit for k into a miss.
Evicts(k) == Get(enabled, dir, k) # NoPath /\ Get(enabled, dir', k) = NoPath

\* The step on which clear returns.
ClearReturns == cl.pc \in {"unlink", "mkdir"} /\ cl'.pc = "done"

\* C25: a cache entry is removed only by clear: a put that succeeded leaves
\* a hit, no step of get, put or get_size turns a hit into a miss, and when
\* clear returns every key misses and the cache directory exists and is
\* empty.
C25_RemovedOnlyByClear ==
    /\ [](Succeeded(wr["w1"]) => Get(enabled, dir, wr["w1"].key) # NoPath)
    /\ [][/\ \A k \in Keys : Evicts(k) => cl.pc = "unlink"
          /\ ClearReturns =>
                /\ ~cl'.raised
                /\ \A k \in Keys : Get(enabled, dir', k) = NoPath
                /\ cdir'
                /\ Listing(dir') = {}]_vars

C25_Witness ==
    /\ cl.pc = "done"
    /\ cl.removed = {get_path(k) : k \in Keys}
    /\ rd.path # NoPath
    /\ gs.pc = "done"
    /\ gs.total > 0
    /\ \A k \in Keys : Get(enabled, dir, k) = NoPath
    /\ cdir

(***************************************************************************)
(* Claims about the attempts, the endpoints and the rate limiter           *)
(***************************************************************************)
\* A download or a tile-generation run, each from its initial state.
NextRetry ==
    \/ /\ tg.pc = "idle"
       /\ NextDl
    \/ /\ dl.pc = "idle"
       /\ NextTg

SpecRetry == InitDl /\ [][NextRetry]_vars

\* C26: the attempt index is the number of attempts already made, so it
\* goes up by one per attempt; a download makes at most MAX_RETRIES attempts
\* and a tile-generation run at most TG_MAX_RETRIES; a call that ends in an
\* error after every attempt failed has made exactly that many, and the
\* tile generator's error is TileGenerationError.
C26_AttemptsCountedAndBounded ==
    /\ dl.made <= MAX_RETRIES
    /\ dl.pc = "loop" => (dl.attempt = dl.made /\ dl.made < MAX_RETRIES)
    /\ dl.pc = "raised" => (dl.made = MAX_RETRIES /\ dl.raised # "none")
    /\ tg.made <= TG_MAX_RETRIES
    /\ tg.pc = "loop" => (tg.attempt = tg.made /\ tg.made < TG_MAX_RETRIES)
    /\ tg.pc \notin {"idle", "loop", "returned", "raised"} => tg.attempt = tg.made - 1
    /\ tg.pc = "raised" =>
          /\ tg.made = TG_MAX_RETRIES
          /\ Len(tg.kinds) = TG_MAX_RETRIES
          /\ tg.error = "TileGenerationError"

C26_Witness ==
    /\ dl.pc = "raised"
    /\ dl.made = MAX_RETRIES
    /\ dl.attempt = MAX_RETRIES
    /\ dl.raised = "TimeoutError"

\* C27: an attempt that fails with an HTTP 4xx status other than 429
\* leaves the current endpoint index as it was when the attempt began.
C27_PermanentNeverRotates ==
    dl.att.kind = "http4xx" => dl.current_endpoint_index = dl.att.ep

\* C28: a 5xx failure rotates the endpoint only when the attempt before it,
\* in the same download, was a 5xx failure too.
C28_RotatesOnSecondTransient ==
    (dl.made >= 1 /\ dl.att.kind = "http5xx" /\ dl.current_endpoint_index # dl.att.ep)
        => (dl.made >= 2 /\ dl.prev.kind = "http5xx")

\* C29: the recorded start times of two consecutive requests of a fetcher
\* are at least min_request_interval apart, within a download and from one
\* download to the next.
C29_MinRequestInterval ==
    dl.requests >= 2 => dl.gap >= MinIntervalTicks

C29_Witness ==
    /\ dl.requests >= 2
    /\ dl.made = 1
    /\ dl.slept = MinIntervalTicks
    /\ dl.gap = MinIntervalTicks

RECURSIVE RotateTimes(_, _)
RotateTimes(i, n) == IF n = 0 THEN i ELSE RotateTimes(RotateEndpoint(i), n - 1)

\* C30: the current endpoint index is a valid index of the pool, the pool
\* is the one the class defines, and as many rotations as the pool has
\* endpoints lead back to the endpoint they began at.
C30_EndpointIndexValid ==
    /\ dl.current_endpoint_index \in 0..(Len(dl.pool) - 1)
    /\ dl.pool = OVERPASS_ENDPOINTS
    /\ RotateTimes(dl.current_endpoint_index, Len(dl.pool)) = dl.current_endpoint_index
    /\ \A n \in 1..(Len(dl.pool) - 1) :
          RotateTimes(dl.current_endpoint_index, n) # dl.current_endpoint_index

C30_Witness ==
    /\ dl.att.kind = "timeout"
    /\ dl.att.ep = Len(dl.pool) - 1
    /\ dl.current_endpoint_index = 0
    /\ dl.prev.ep = Len(dl.pool) - 2

(***************************************************************************)
(* Claims about the supervised process, the validation and the pipeline    *)
(***************************************************************************)
\* C31: the simplification passed to the tool is strictly greater at each
\* attempt of a run than at the attempt before.
C31_SimplificationIncreases ==
    \A i \in 1..(Len(tg.simps) - 1) : tg.simps[i + 1] > tg.simps[i]

\* The steps the program takes by itself once it can: the threads of the
\* generator are scheduled. What the child and the system's memory do is
\* not the program's to decide.
TgProgram ==
    \/ MonitorPoll
    \/ TgReap
    \/ TgCleanup
    \/ TgNoOutput
    \/ TgMoveRename
    \/ TgMoveCopyBegin
    \/ \E ok \in BOOLEAN : TgMoveCopyEnd(ok)

SpecTgLive == InitTg /\ [][NextTg]_vars /\ WF_vars(TgProgram)

\* _generate_tiles_internal waits in executor.shutdown(wait=True).
Joining == tg.pc \in {"await_ok", "await_err"}

\* C32: on the first attempt, once the child has exited and has been
\* reaped, the monitor stops and _generate_tiles_internal goes on to return
\* or raise: the wait for the monitor always ends.
C32_FirstAttemptTerminates ==
    (tg.attempt = 0 /\ Joining) ~> ~Joining

NextOut ==
    \/ \E rate \in DropRates : TgStart(rate)
    \/ TgBeginAttempt(TRUE, FALSE)
    \/ TgReadLine
    \/ ChildWrite
    \/ \E kind \in ExitClasses \cup {"ok"} : ChildExit(kind)
    \/ TgReap
    \/ \E exc \in {"OSError", "Exception"} : TgReadError(exc)

SpecOut == InitDl /\ [][NextOut]_vars

\* C34: at every point of the read loop the buffer of output lines holds
\* at most the ERROR_CONTEXT_LINES most recent lines of the child.
C34_OutputBufferBounded ==
    /\ Len(tg.output_lines) <= ERROR_CONTEXT_LINES
    /\ \A i \in 1..Len(tg.output_lines) :
          tg.output_lines[i] = tg.printed - Len(tg.output_lines) + i

\* An archive with nothing but the older layout, and one with nothing but
\* the newer one, each with metadata, records and tile data.
OldLayoutOnly ==
    [metadata |-> TRUE, format |-> TRUE, tiles |-> "ok", map |-> "absent",
     images |-> "absent"]

NewLayoutOnly ==
    [metadata |-> TRUE, format |-> TRUE, tiles |-> "absent", map |-> "ok",
     images |-> "ok"]

\* C35: validation succeeds only on an archive with a metadata table that
\* has a format entry, with a tiles table or with a map and an images
\* table, and with records that have zoom levels and a sample with tile
\* data; an archive with only one of the layouts, complete, is accepted; one
\* whose counted table has no rows is not.
C35_ValidOnlyIfComplete ==
    /\ vo.outcome = "valid" =>
          /\ vo.archive.metadata
          /\ vo.archive.format
          /\ \/ vo.archive.tiles = "ok"
             \/ vo.archive.map = "ok" /\ vo.archive.images = "ok"
          /\ CountedTable(vo.archive) # "empty"
    /\ (vo.pc = "done" /\ vo.file = "present"
            /\ vo.looks[Len(vo.looks)] \notin {"corrupt", "locked"}
            /\ vo.archive \in {OldLayoutOnly, NewLayoutOnly}) =>
          vo.outcome = "valid"

C35_Witness ==
    /\ vo.pc = "done"
    /\ vo.outcome = "valid"
    /\ vo.archive = NewLayoutOnly
    /\ vo.inspections = 1

\* C36: every tile archive in the cache passed _validate_output before it
\* was stored, and a request whose generation or validation raised left no
\* cache entry for its key.
IsTiles(bytes) == bytes # <<>> /\ bytes[1] = "tiles"

C36_CachedTilesWereValidated ==
    /\ \A e \in rq.entries : IsTiles(e.v) => e.v[4]
    /\ (rq.pc = "failed" /\ rq.end \in {"build", "validate"}) =>
          ~Has(rq.entries, TileKey(rq.bbox, rq.mtime, rq.types))

\* A request stored its validated archive after an earlier run of the
\* generation had failed validation.
C36_Witness ==
    /\ enabled
    /\ rq.pc = "done"
    /\ rq.end = "store"
    /\ rq.tiles = <<"cache", TileKey(rq.bbox, rq.mtime, rq.types)>>
    /\ IsTiles(BytesAt(rq, rq.tiles))
    /\ BytesAt(rq, rq.tiles)[3] = 2

\* Requests that differ in the bounding box and in the feature types.
NextTypes ==
    \/ \E b \in BBoxes, types \in TypeSets : ReqStart(b, types)
    \/ \E outcome \in DownloadOutcomes, putOk \in BOOLEAN :
          ReqDownload(outcome, putOk)
    \/ \E tool \in ToolChecks \ {"ok"} : ReqGenerate(tool, TRUE, TRUE, TRUE, TRUE)
    \/ \E inputs \in BOOLEAN, built \in BOOLEAN, valid \in BOOLEAN, putOk \in BOOLEAN :
          ReqGenerate("ok", inputs, built, valid, putOk)

SpecTypes == InitRq /\ [][NextTypes]_vars

\* C38: with the cache enabled, a request that starts when a raw-data entry
\* exists for its bounding box makes no download and gets the path of that
\* one entry, whatever its feature types are.
C38_RawDataSharedAcrossTypes ==
    (enabled /\ rq.had /\ rq.pc \notin {"idle", "download"}) =>
        /\ rq.fetches = 0
        /\ rq.osm = <<"cache", OsmKey(rq.bbox)>>
        /\ Cardinality({e \in rq.entries : e.k = OsmKey(rq.bbox)}) = 1

\* A request got the raw data an earlier request had downloaded for other
\* feature types.
C38_Witness ==
    /\ enabled
    /\ rq.had
    /\ rq.pc = "generate"
    /\ rq.fetches = 0
    /\ rq.osm = <<"cache", OsmKey(rq.bbox)>>
    /\ BytesAt(rq, rq.osm)[3] # rq.types

\* C39: every raw-data entry of the cache has a non-zero size, and a
\* download that ended in RuntimeError left no entry for its bounding box.
C39_NoEmptyRawDataCached ==
    /\ \A b \in BBoxes :
          Has(rq.entries, OsmKey(b)) => Lookup(rq.entries, OsmKey(b)) # <<>>
    /\ (rq.pc = "failed" /\ rq.error = "RuntimeError") =>
          ~Has(rq.entries, OsmKey(rq.bbox))

\* With the cache enabled, a download left an empty file and raised.
C39_Witness ==
    /\ enabled
    /\ rq.pc = "failed"
    /\ rq.error = "RuntimeError"
    /\ rq.fetches = 1
    /\ Has(rq.outside, TempOsmPath(rq.bbox))
    /\ Lookup(rq.outside, TempOsmPath(rq.bbox)) = <<>>

\* C40: a generate that ended at the executable check raised
\* TippecanoeError and did not reach the cache lookup.
C40_UnavailableRaisesTippecanoeError ==
    (rq.pc = "failed" /\ rq.end = "check") =>
        /\ rq.error = "TippecanoeError"
        /\ ~rq.looked

(***************************************************************************)
(* TilecraftPipeline.run: five stages inside one try block.                *)
(***************************************************************************)
\* The stages in the order of lines 49-62.
StageOrder == <<"download", "extract", "schema", "tiles", "style">>

StageIndex(stage) == CHOOSE i \in 1..Len(StageOrder) : StageOrder[i] = stage

\* What a stage may return: one of two values of its kind.
StageOutputs(stage) == {<<stage, v>> : v \in {1, 2}}

StageExceptions == {"ValueError", "RuntimeError"}

\* The argument run passes to a stage: download_osm_data() and
\* generate_schema() take none and read the configuration,
\* extract_features(osm_data_path), generate_tiles(feature_files),
\* generate_style(schema).
StageArg(stage, p) ==
    CASE stage = "download" -> <<"config", "bbox">>
      [] stage = "extract" -> p.osm_data
      [] stage = "schema" -> <<"config", "features.types">>
      [] stage = "tiles" -> p.features
      [] stage = "style" -> p.schema

\* Lines 75-77: except Exception as e: log, then a bare raise.
PropagatedNone(exc) == "none"

Propagated(exc) == exc

\* The pipeline after a stage returned out.
Returned(p, stage, out) ==
    CASE stage = "download" -> [p EXCEPT !.osm_data = out, !.pc = "extract"]
      [] stage = "extract" -> [p EXCEPT !.features = out, !.pc = "schema"]
      [] stage = "schema" -> [p EXCEPT !.schema = out, !.pc = "tiles"]
      [] stage = "tiles" -> [p EXCEPT !.tiles = out, !.pc = "style"]
      [] stage = "style" ->
            [p EXCEPT !.style = out, !.pc = "done",
                      !.result = <<p.osm_data, p.features, p.schema, p.tiles, out>>]

\* A caller calls run.
Run ==
    /\ pl.pc \in {"idle", "done", "failed"}
    /\ pl' = [NoPipeline EXCEPT !.pc = "download"]
    /\ UNCHANGED notPl

\* The stage at hand is invoked and returns out.
StageReturns(out) ==
    /\ pl.pc \in {StageOrder[i] : i \in 1..Len(StageOrder)}
    /\ out \in StageOutputs(pl.pc)
    /\ LET call == [stage |-> pl.pc, arg |-> StageArg(pl.pc, pl), out |-> out]
       IN  pl' = Returned([pl EXCEPT !.calls = Append(pl.calls, call)], pl.pc, out)
    /\ UNCHANGED notPl

\* The stage at hand is invoked and raises exc.
StageRaises(exc) ==
    /\ pl.pc \in {StageOrder[i] : i \in 1..Len(StageOrder)}
    /\ LET call == [stage |-> pl.pc, arg |-> StageArg(pl.pc, pl), out |-> <<>>]
       IN  pl' = [pl EXCEPT !.calls = Append(pl.calls, call), !.pc = "failed",
                            !.thrown = exc, !.raised = Propagated(exc)]
    /\ UNCHANGED notPl

NextPl ==
    \/ Run
    \/ \E stage \in {StageOrder[i] : i \in 1..Len(StageOrder)} :
          \E out \in StageOutputs(stage) : StageReturns(out)
    \/ \E exc \in StageExceptions : StageRaises(exc)

SpecPl == InitDl /\ [][NextPl]_vars

\* The stages were invoked in the fixed order, and after a raise none was.
InOrder ==
    /\ Len(pl.calls) <= Len(StageOrder)
    /\ \A i \in 1..Len(pl.calls) : pl.calls[i].stage = StageOrder[i]
    /\ pl.pc = "done" => Len(pl.calls) = Len(StageOrder) /\ pl.raised = "none"
    /\ pl.pc = "failed" =>
          /\ pl.thrown # "none"
          /\ pl.raised = pl.thrown
          /\ \A i \in 1..(Len(pl.calls) - 1) : pl.calls[i].out # <<>>
          /\ pl.calls[Len(pl.calls)].out = <<>>

OutputOf(stage) ==
    IF StageIndex(stage) <= Len(pl.calls) THEN pl.calls[StageIndex(stage)].out
    ELSE <<>>

\* C37 as stated: the stages run in the fixed order, every stage after the
\* first receives the output of the stage before it, and a raise ends the
\* run with the same exception.
C37_EachStageGetsPreviousOutput ==
    /\ InOrder
    /\ \A i \in 2..Len(pl.calls) : pl.calls[i].arg = pl.calls[i - 1].out

\* C37 amended: the stages run in the fixed order; extract receives the
\* download's output, the tile generation the extracted feature files, the
\* style generation the schema, and the schema generation only the
\* configuration; a raise ends the run with the same exception.
C37_StagesInOrder ==
    /\ InOrder
    /\ \A i \in 1..Len(pl.calls) :
          pl.calls[i].arg =
             CASE i = 1 -> <<"config", "bbox">>
               [] i = 2 -> OutputOf("download")
               [] i = 3 -> <<"config", "features.types">>
               [] i = 4 -> OutputOf("extract")
               [] i = 5 -> OutputOf("schema")

\* The tile generation raised: four stages were invoked, the style
\* generation was not, and the exception left run.
C37_Witness ==
    /\ pl.pc = "failed"
    /\ Len(pl.calls) = 4
    /\ pl.calls[4].stage = "tiles"
    /\ pl.calls[4].arg = pl.features
    /\ pl.raised = "RuntimeError"

====
